---- MODULE Spec2Model ----
(***************************************************************************)
(* Model of the batch bibliographic loader, processing/handler.py:         *)
(* ScopusDBLoader.insert_papers_batch and AsyncScopusDBLoader, with the    *)
(* PostgreSQL storage it writes to (READ COMMITTED transactions, unique    *)
(* indexes, INSERT ... ON CONFLICT, serial sequences).                     *)
(***************************************************************************)
EXTENDS Integers, Sequences, FiniteSets, TLC

(***************************************************************************)
(* Values                                                                  *)
(***************************************************************************)
\* Python None / SQL NULL for a text value
NULL == "NULL"
\* a key that the JSON object does not carry (dict.get falls to its default)
ABSENT == "ABSENT"
\* Python None for an integer id (paper_id_map.get(scid) on a miss)
NoId == 0

\* Python truthiness of an optional string: None and "" are falsy
Truthy(v) == v \notin {NULL, ""}

\* psycopg2.extras.execute_values: rows per statement (page_size default)
PageSize == 100

\* ---- bounds of the model ----
\* batches submitted to one loader in a run
MaxBatches == 2
\* records in one batch of the small scenarios
MaxBatchLen == 2
\* records in one batch of the bulk scenario (beyond one page)
MaxBulk == 101
\* batches submitted in a run of the bulk scenario
MaxBulkBatches == 1

\* int(x) on the strings the scenarios use; -1 stands for ValueError/TypeError
ParseErr == 0 - 1
IntOf(v) ==
  CASE v = "0" -> 0
    [] v = "1" -> 1
    [] v = "2" -> 2
    [] v = "5" -> 5
    [] v = "12" -> 12
    [] OTHER -> ParseErr

\* int(core.get("citedby-count", 0)): the default applies to an absent key only
CitedByCount(core) ==
  IF core.citedby_count = ABSENT THEN 0 ELSE IntOf(core.citedby_count)

\* int(pub_date[:4]) if pub_date else None
PubYear(pub_date) ==
  CASE ~Truthy(pub_date) -> NoId
    [] pub_date = "2020-01-01" -> 2020
    [] pub_date = "2021-06-30" -> 2021
    [] OTHER -> ParseErr

(***************************************************************************)
(* Sequence helpers                                                        *)
(***************************************************************************)
Range(s) == {s[i] : i \in DOMAIN s}

\* the concatenation of ss[lo], ..., ss[hi]
RECURSIVE FlattenRange(_, _, _)
FlattenRange(ss, lo, hi) ==
  IF lo > hi THEN <<>>
  ELSE IF lo = hi THEN ss[lo]
  ELSE LET mid == (lo + hi) \div 2
       IN FlattenRange(ss, lo, mid) \o FlattenRange(ss, mid + 1, hi)

Flatten(ss) == FlattenRange(ss, 1, Len(ss))

\* the elements s[i] of s[lo..hi] with Keep(i), in order
RECURSIVE Pick(_, _, _, _)
Pick(s, Keep(_), lo, hi) ==
  IF lo > hi THEN <<>>
  ELSE IF lo = hi THEN (IF Keep(lo) THEN <<s[lo]>> ELSE <<>>)
  ELSE LET mid == (lo + hi) \div 2
       IN Pick(s, Keep, lo, mid) \o Pick(s, Keep, mid + 1, hi)

\* [f(s[1]), ..., f(s[n])]
MapSeq(s, F(_)) == [i \in DOMAIN s |-> F(s[i])]

\* a Python dict filled by "if k and k not in d: d[k] = row" over the rows of s,
\* as the sequence of its values in insertion order
DictFirst(s) ==
  LET Keep(i) == Truthy(s[i].key) /\ \A j \in 1..(i - 1) : s[j].key # s[i].key
  IN Pick(s, Keep, 1, Len(s))

\* the values of s without repetition, in order of first occurrence
Dedup(s) ==
  LET Keep(i) == \A j \in 1..(i - 1) : s[j] # s[i]
  IN Pick(s, Keep, 1, Len(s))

\* a dict as a function; d.get(k) with None as NoId
Get(d, k) == IF k \in DOMAIN d THEN d[k] ELSE NoId
Put(d, k, v) == [x \in DOMAIN d \cup {k} |-> IF x = k THEN v ELSE d[x]]
EmptyDict == [x \in {} |-> NoId]

(***************************************************************************)
(* Input records: one 'abstracts-retrieval-response' tree each.            *)
(* A record is [core, source, affiliation, authors, subjects, authkw,      *)
(* idxterms, refs, funding, single, null]; an optional text is NULL when   *)
(* the tree does not carry it.  A repeatable group is held as the list of  *)
(* its entries; single names the groups that the tree carries as one       *)
(* object instead of a list of one, null the optional parts whose key the  *)
(* tree carries with a null value.                                         *)
(***************************************************************************)
\* coredata with every text field of the paper set to the token v
Core(scid, v, cited, pubname) ==
  [dc_identifier |-> scid, eid |-> v, doi |-> v, title |-> v, description |-> v,
   coverDate |-> IF v = NULL THEN NULL ELSE "2020-01-01",
   publicationName |-> pubname, publisher |-> pubname,
   aggregationType |-> v, volume |-> v, issueIdentifier |-> v, pageRange |-> v,
   startingPage |-> v, endingPage |-> v, citedby_count |-> cited,
   openaccess |-> IF v = "b" THEN "2" ELSE "0", subtype |-> v,
   subtypeDescription |-> v]

\* data.get("coredata", {}) of a record without the coredata wrapper: every
\* core.get(...) yields None, and the citation count its default
MissingCore ==
  [Core(NULL, NULL, ABSENT, NULL) EXCEPT !.openaccess = NULL]

\* item.bibrecord.head.source; issn is a list of [type, val]
Source(srcid, v) ==
  [srcid |-> srcid, sourcetitle_abbrev |-> v, type |-> v,
   issn |-> IF v = NULL THEN <<>>
            ELSE <<[type |-> "print", val |-> v], [type |-> "electronic", val |-> v]>>]
NoSource == Source(NULL, NULL)

Affil(id, v) ==
  [id |-> id, affilname |-> v, city |-> v, state |-> v, country |-> v,
   postal_code |-> v]

\* one author of authors.author: surname sn, every other name field v,
\* affiliation = the list of affiliation ids of the author
Author(auid, sn, v, seq, affs) ==
  [auid |-> auid, surname |-> sn, given_name |-> v, initials |-> v,
   indexed_name |-> v, seq |-> seq, affiliation |-> affs]

Subject(code, name, abbrev) == [code |-> code, name |-> name, abbrev |-> abbrev]

Reference(id, v) ==
  [id |-> id, fulltext |-> v, year |-> v, volume |-> v, pages |-> v]

\* one xocs:funding entry; grants = the list of xocs:funding-id values
Funding(agency_id, name, country, grants) ==
  [agency_id |-> agency_id, agency |-> name, acronym |-> NULL,
   country |-> country, grants |-> grants]

Record(core, source) ==
  [core |-> core, source |-> source, affiliation |-> <<>>, authors |-> <<>>,
   subjects |-> <<>>, authkw |-> <<>>, idxterms |-> <<>>, refs |-> <<>>,
   funding |-> <<>>, single |-> {}, null |-> {}]

\* the repeatable groups of a record
Groups ==
  {"affiliation", "author", "author_affiliation", "subject_area",
   "author_keyword", "idxterm", "reference", "funding", "funding_id"}

\* a loop "for x in group" with no isinstance test meets the group as one
\* object: it iterates the keys of that object, which are strings
Unlisted(data, g, list) == g \in data.single /\ list # <<>>

\* "for t in terms: val = t.get("$") if isinstance(t, dict) else t": of a
\* single idxterm object the loop takes the key "$" as the term
IdxTerms(data) ==
  IF Unlisted(data, "idxterm", data.idxterms) THEN <<"$">> ELSE data.idxterms

\* author.get / sa.get on a key string raises AttributeError in extraction
ExtractRaises(json_list) ==
  \E i \in DOMAIN json_list :
    \/ Unlisted(json_list[i], "author", json_list[i].authors)
    \/ Unlisted(json_list[i], "subject_area", json_list[i].subjects)

\* the optional parts of a record: item.bibrecord.head.source, affiliation,
\* authors, subject-areas, authkeywords, idxterms, bibliography, the funding
\* list, and the preferred-name of an author
Optionals ==
  {"source", "affiliation", "authors", "subject_areas", "authkeywords",
   "idxterms", "bibliography", "funding", "preferred_name"}

\* a default of dict.get applies to an absent key only: source_info.get,
\* "for aff in affs", data.get("authors", {}).get, data.get("subject-areas",
\* {}).get and pref.get raise on the None of a key with a null value.
\* skip = the source and affiliation blocks are not run; known = the authors
\* that extraction passes over.  The preferred-name is read of the first
\* occurrence in the batch of an auid that is not in known
NullRaises(json_list, skip, known) ==
  \E i \in DOMAIN json_list :
    \/ ~skip /\ json_list[i].null \cap {"source", "affiliation"} # {}
    \/ json_list[i].null \cap {"authors", "subject_areas"} # {}
    \/ /\ "preferred_name" \in json_list[i].null
       /\ \E a \in Range(json_list[i].authors) :
            /\ Truthy(a.auid) /\ a.auid \notin known
            /\ \A j \in 1..(i - 1) :
                 \A b \in Range(json_list[j].authors) : b.auid # a.auid

(***************************************************************************)
(* Column tuples built from a record                                       *)
(***************************************************************************)
\* for issn in issn_list: the last entry of each type wins
IssnOf(issn_list, type) ==
  LET of == {i \in DOMAIN issn_list : issn_list[i].type = type}
  IN IF of = {} THEN NULL
     ELSE issn_list[CHOOSE i \in of : \A j \in of : j <= i].val

SourceRow(data) ==
  [key |-> data.source.srcid,
   attrs |-> [source_name |-> data.core.publicationName,
              source_abbrev |-> data.source.sourcetitle_abbrev,
              issn_print |-> IssnOf(data.source.issn, "print"),
              issn_electronic |-> IssnOf(data.source.issn, "electronic"),
              publisher |-> data.core.publisher,
              source_type |-> data.source.type]]

AffiliationRow(aff) ==
  [key |-> aff.id,
   attrs |-> [affiliation_name |-> aff.affilname, city |-> aff.city,
              state |-> aff.state, country |-> aff.country,
              postal_code |-> aff.postal_code]]

AuthorRow(author) ==
  [key |-> author.auid,
   attrs |-> [surname |-> author.surname, given_name |-> author.given_name,
              initials |-> author.initials, indexed_name |-> author.indexed_name]]

SubjectRow(sa) ==
  [key |-> sa.code,
   attrs |-> [subject_name |-> sa.name, subject_abbrev |-> sa.abbrev]]

KeywordRow(kw, kw_type) == [key |-> kw, attrs |-> [keyword_type |-> kw_type]]

\* paper_core_rows.append((sc_id, eid, ..., subtypeDescription))
PaperRow(core, source_id) ==
  [key |-> core.dc_identifier,
   attrs |-> [eid |-> core.eid, doi |-> core.doi, title |-> core.title,
              abstract |-> core.description,
              publication_date |-> core.coverDate,
              publication_year |-> PubYear(core.coverDate),
              source_id |-> source_id, source_type |-> core.aggregationType,
              volume |-> core.volume, issue |-> core.issueIdentifier,
              page_range |-> core.pageRange, start_page |-> core.startingPage,
              end_page |-> core.endingPage,
              cited_by_count |-> CitedByCount(core),
              open_access |-> (core.openaccess = "2"),
              document_type |-> core.subtype,
              subtype_description |-> core.subtypeDescription,
              updated_at |-> 0]]

(***************************************************************************)
(* Extraction phase                                                        *)
(***************************************************************************)
\* the truthy values of a keyword list
KeywordVals(kws) == SelectSeq(kws, Truthy)

\* _extract_dimension_sets: the five dimension collections of a batch, each
\* as the sequence of its rows in insertion order
_extract_dimension_sets(json_list, disable_metadata_upsert) ==
  LET skip == disable_metadata_upsert
      all(Group(_)) == Flatten(MapSeq(json_list, Group))
  IN [sources |-> IF skip THEN <<>>
                  ELSE DictFirst(MapSeq(json_list, SourceRow)),
      affiliations |->
        IF skip THEN <<>>
        ELSE DictFirst(MapSeq(all(LAMBDA d : d.affiliation), AffiliationRow)),
      authors |-> DictFirst(MapSeq(all(LAMBDA d : d.authors), AuthorRow)),
      subjects |-> DictFirst(MapSeq(all(LAMBDA d : d.subjects), SubjectRow)),
      keywords_author |-> Dedup(all(LAMBDA d : KeywordVals(d.authkw))),
      keywords_indexed |-> Dedup(all(LAMBDA d : KeywordVals(IdxTerms(d)))),
      skip_src_aff |-> skip]

\* an all_keywords that takes the indexed terms first
AllKeywordsIndexedFirst(ext) ==
  MapSeq(ext.keywords_indexed, LAMBDA k : KeywordRow(k, "indexed"))
  \o MapSeq(SelectSeq(ext.keywords_author,
                      LAMBDA k : k \notin Range(ext.keywords_indexed)),
            LAMBDA k : KeywordRow(k, "author"))

\* all_keywords of _bulk_upsert_dimensions: author keywords first, then the
\* indexed terms that are no author keyword of the batch
AllKeywords(ext) ==
  MapSeq(ext.keywords_author, LAMBDA k : KeywordRow(k, "author"))
  \o MapSeq(SelectSeq(ext.keywords_indexed,
                      LAMBDA k : k \notin Range(ext.keywords_author)),
            LAMBDA k : KeywordRow(k, "indexed"))

(***************************************************************************)
(* State                                                                   *)
(***************************************************************************)
VARIABLES
  db,     \* storage: table name -> set of rows, uncommitted ones included
  seqv,   \* storage: table name -> last value of the table's serial sequence
  now,    \* calls of insert_papers_batch started so far (also the clock)
  ld,     \* loader -> the ScopusDBLoader instance and its running call
  scn,    \* the scenario: which records the callers submit
  hist,   \* loader -> observations of its calls, read by the properties only
  ex      \* the ScopusCSVExporter instance, its CSV files and its last call

vars == <<db, seqv, now, ld, scn, hist, ex>>

Dims == {"sources", "affiliations", "authors", "subject_areas", "keywords"}
LinkTables == {"paper_authors", "paper_author_affiliations", "paper_keywords",
               "paper_subject_areas", "reference_papers", "paper_funding"}
Tables == Dims \cup {"funding_agencies", "papers"} \cup LinkTables

\* worker threads of AsyncScopusDBLoader in the concurrent scenarios
Loaders == {1, 2}

(***************************************************************************)
(* Storage: rows, transactions, INSERT ... ON CONFLICT                     *)
(*                                                                         *)
(* A row is [id, key, attrs, tx, new, old].  tx = 0: committed and not     *)
(* locked.  tx = l, new: inserted by loader l's open transaction.  tx = l, *)
(* ~new: a committed row updated (and so locked) by l's open transaction;  *)
(* old holds its committed attrs.                                          *)
(***************************************************************************)
\* the rows of table t that loader l's statements see
Visible(l, t) == {r \in db[t] : ~r.new \/ r.tx = l}

\* a unique index never matches a NULL key: only sources and papers can be
\* handed one (their key comes from the record unguarded)
NullKey(t, key) == t \in {"sources", "papers"} /\ key = NULL

\* the SQL statements of the loader: table, ON CONFLICT action, the columns
\* set to COALESCE(EXCLUDED.c, t.c), the columns set to EXCLUDED.c, and
\* whether updated_at = CURRENT_TIMESTAMP is set
Sql(name) ==
  CASE name = "sources_bulk" ->
         [table |-> "sources", on_conflict |-> "update",
          coalesce |-> {"source_name", "source_abbrev", "issn_print",
                        "issn_electronic", "publisher", "source_type"},
          assign |-> {}, stamp |-> FALSE]
    [] name = "sources_single" ->
         [table |-> "sources", on_conflict |-> "update",
          coalesce |-> {"source_name"}, assign |-> {}, stamp |-> FALSE]
    [] name = "affiliations_bulk" ->
         [table |-> "affiliations", on_conflict |-> "update",
          coalesce |-> {"affiliation_name", "city", "state", "country",
                        "postal_code"},
          assign |-> {}, stamp |-> FALSE]
    [] name \in {"authors_bulk", "authors_single"} ->
         [table |-> "authors", on_conflict |-> "update",
          coalesce |-> {"surname"}, assign |-> {}, stamp |-> FALSE]
    [] name \in {"subjects_bulk", "subjects_single"} ->
         [table |-> "subject_areas", on_conflict |-> "update",
          coalesce |-> {"subject_name"}, assign |-> {}, stamp |-> FALSE]
    [] name \in {"keywords_bulk", "keywords_single"} ->
         [table |-> "keywords", on_conflict |-> "update",
          coalesce |-> {}, assign |-> {}, stamp |-> FALSE]
    [] name = "papers" ->
         [table |-> "papers", on_conflict |-> "update",
          coalesce |-> {}, assign |-> {"cited_by_count"}, stamp |-> TRUE]
    [] name = "paper_authors" ->
         [table |-> "paper_authors", on_conflict |-> "update",
          coalesce |-> {}, assign |-> {"author_sequence"}, stamp |-> FALSE]
    [] name \in LinkTables ->
         [table |-> name, on_conflict |-> "nothing",
          coalesce |-> {}, assign |-> {}, stamp |-> FALSE]

\* a SET clause without COALESCE: the new value is stored even when NULL
MergeOverwrite(sql, stored, excluded) ==
  [c \in DOMAIN stored |->
     IF c \in sql.coalesce \cup sql.assign THEN excluded[c]
     ELSE IF c = "updated_at" /\ sql.stamp THEN now
     ELSE stored[c]]

\* a SET clause that assigns every column of a statement that assigns some
MergeEveryColumn(sql, stored, excluded) ==
  [c \in DOMAIN stored |->
     IF c \in sql.coalesce
     THEN (IF excluded[c] # NULL THEN excluded[c] ELSE stored[c])
     ELSE IF c = "updated_at" /\ sql.stamp THEN now
     ELSE IF sql.assign # {} THEN excluded[c]
     ELSE stored[c]]

\* the DO UPDATE SET clause: the stored row's attrs after a conflict
Merge(sql, stored, excluded) ==
  [c \in DOMAIN stored |->
     IF c \in sql.coalesce
     THEN (IF excluded[c] # NULL THEN excluded[c] ELSE stored[c])
     ELSE IF c \in sql.assign THEN excluded[c]
     ELSE IF c = "updated_at" /\ sql.stamp THEN now
     ELSE stored[c]]

\* a plain INSERT into a table without a unique index on the key
UpsertNoIndex(l, sql, row, touched) ==
  [status |-> "ok", id |-> seqv[sql.table] + 1, inserted |-> TRUE,
   rows |-> db[sql.table] \cup
            {[id |-> seqv[sql.table] + 1, key |-> row.key, attrs |-> row.attrs,
              tx |-> l, new |-> TRUE, old |-> row.attrs]}]

\* one proposed row of INSERT ... ON CONFLICT, run by loader l.  touched = the
\* keys this command has already inserted or updated.  The result is
\*   blocked: another open transaction holds the key (the statement waits);
\*   error:   ON CONFLICT DO UPDATE cannot affect a row a second time;
\*   ok:      rows = the table afterwards, id = the id RETURNING gives (NoId
\*            when the row is skipped by DO NOTHING), inserted = a new row.
Upsert(l, sql, row, touched) ==
  LET t == sql.table
      same == IF NullKey(t, row.key) THEN {}
              ELSE {r \in db[t] : r.key = row.key}
      nextid == seqv[t] + 1
  IN IF \E r \in same : r.tx \notin {0, l}
                         /\ (r.new \/ sql.on_conflict = "update")
     THEN [status |-> "blocked"]
     ELSE IF same = {}
     THEN [status |-> "ok", id |-> nextid, inserted |-> TRUE,
           rows |-> db[t] \cup {[id |-> nextid, key |-> row.key,
                                 attrs |-> row.attrs, tx |-> l, new |-> TRUE,
                                 old |-> row.attrs]}]
     ELSE LET r == CHOOSE r \in same : TRUE
          IN IF sql.on_conflict = "nothing"
             THEN [status |-> "ok", id |-> NoId, inserted |-> FALSE, rows |-> db[t]]
             ELSE IF row.key \in touched
             THEN [status |-> "error"]
             ELSE [status |-> "ok", id |-> r.id, inserted |-> FALSE,
                   rows |-> (db[t] \ {r}) \cup
                            {[r EXCEPT !.attrs = Merge(sql, r.attrs, row.attrs),
                                       !.tx = l]}]

\* conn.commit(): the transaction's rows become committed rows
CommitTx(l, tables) ==
  [t \in Tables |->
     {IF r.tx = l THEN [r EXCEPT !.tx = 0, !.new = FALSE, !.old = r.attrs] ELSE r
        : r \in tables[t]}]

\* conn.rollback(): inserted rows vanish, updated rows get their old attrs
RollbackTx(l, tables) ==
  [t \in Tables |->
     {IF r.tx = l THEN [r EXCEPT !.tx = 0, !.attrs = r.old] ELSE r
        : r \in {x \in tables[t] : ~(x.tx = l /\ x.new)}}]

(***************************************************************************)
(* The loader: ScopusDBLoader and one running insert_papers_batch call     *)
(***************************************************************************)
\* ScopusDBLoader.__init__: the connection mode and the five empty caches.
\* async = the loader is created by AsyncScopusDBLoader._worker for one call.
\* failed_at = the stage that raised the exception of the last call.
NewLoader(owns, disable, async) ==
  [owns |-> owns, disable |-> disable, async |-> async,
   cache |-> [d \in Dims |-> EmptyDict],
   pc |-> "idle", commit |-> FALSE, own_tx |-> FALSE, json_list |-> <<>>,
   cur_closed |-> FALSE, conn_closed |-> FALSE,
   queue |-> <<>>, ret |-> <<>>, rows |-> <<>>, pending |-> <<>>,
   paper_ids_ordered |-> <<>>, pa_map |-> EmptyDict,
   aborted |-> FALSE, failed_at |-> "none",
   result |-> [kind |-> "none", ids |-> <<>>]]

\* the stages of one call, in program order
Stages ==
  <<"extract", "dim_sources", "dim_affiliations", "dim_authors", "dim_subjects",
    "dim_keywords", "gather_papers", "ins_papers", "gather_authors",
    "ins_paper_authors", "ins_paa", "gather_keywords", "ins_paper_keywords",
    "gather_subjects", "ins_paper_subjects", "ins_references", "funding",
    "return">>

NextStage(stage) ==
  LET i == CHOOSE i \in DOMAIN Stages : Stages[i] = stage IN Stages[i + 1]

\* the stages that run one execute_values command, and the command of each
BulkStages ==
  {"dim_sources", "dim_affiliations", "dim_authors", "dim_subjects",
   "dim_keywords", "ins_papers", "ins_paper_authors", "ins_paa",
   "ins_paper_keywords", "ins_paper_subjects", "ins_references"}

SqlOfStage(stage) ==
  CASE stage = "dim_sources" -> Sql("sources_bulk")
    [] stage = "dim_affiliations" -> Sql("affiliations_bulk")
    [] stage = "dim_authors" -> Sql("authors_bulk")
    [] stage = "dim_subjects" -> Sql("subjects_bulk")
    [] stage = "dim_keywords" -> Sql("keywords_bulk")
    [] stage = "ins_papers" -> Sql("papers")
    [] stage = "ins_paper_authors" -> Sql("paper_authors")
    [] stage = "ins_paa" -> Sql("paper_author_affiliations")
    [] stage = "ins_paper_keywords" -> Sql("paper_keywords")
    [] stage = "ins_paper_subjects" -> Sql("paper_subject_areas")
    [] stage = "ins_references" -> Sql("reference_papers")

\* "for id, key in self.cur.fetchall(): d[key] = id" over the rows ret
FetchInto(d, ret) ==
  LET at(k) == {i \in DOMAIN ret : ret[i].key = k}
  IN [k \in DOMAIN d \cup {ret[i].key : i \in DOMAIN ret} |->
        IF at(k) = {} THEN d[k]
        ELSE ret[CHOOSE i \in at(k) : \A j \in at(k) : j <= i].id]

\* zip(json_list, paper_ids_ordered), "if not pid: continue", then the items
\* Items(data, pid) of each remaining record, concatenated
PerPaper(L, Items(_, _)) ==
  Flatten([i \in DOMAIN L.json_list |->
             IF L.paper_ids_ordered[i] = NoId THEN <<>>
             ELSE Items(L.json_list[i], L.paper_ids_ordered[i])])

AuthorItems(L) ==
  PerPaper(L, LAMBDA data, pid :
    MapSeq(SelectSeq(data.authors, LAMBDA a : Truthy(a.auid)),
           LAMBDA a : [pid |-> pid, author |-> a]))

KeywordItems(L) ==
  PerPaper(L, LAMBDA data, pid :
    MapSeq(KeywordVals(data.authkw),
           LAMBDA k : [pid |-> pid, val |-> k, kw_type |-> "author"])
    \o MapSeq(KeywordVals(IdxTerms(data)),
              LAMBDA k : [pid |-> pid, val |-> k, kw_type |-> "indexed"]))

SubjectItems(L) ==
  PerPaper(L, LAMBDA data, pid :
    MapSeq(SelectSeq(data.subjects, LAMBDA sa : Truthy(sa.code)),
           LAMBDA sa : [pid |-> pid, sa |-> sa]))

\* int(r.get("@id", 0))
RefSeq(r) == IF r.id = ABSENT THEN 0 ELSE IntOf(r.id)

\* r.get on a key string, and bib.get("bibliography", {}).get on the None of
\* a null bibliography, raise AttributeError in the reference loop, which
\* takes the records that have a paper id
ReferencesRaise(L) ==
  \E i \in DOMAIN L.json_list :
    /\ L.paper_ids_ordered[i] # NoId
    /\ \/ Unlisted(L.json_list[i], "reference", L.json_list[i].refs)
       \/ "bibliography" \in L.json_list[i].null

ReferenceRows(L) ==
  PerPaper(L, LAMBDA data, pid :
    MapSeq(data.refs,
           LAMBDA r : [key |-> <<pid, RefSeq(r)>>,
                       attrs |-> [reference_fulltext |-> r.fulltext,
                                  cited_year |-> r.year,
                                  cited_volume |-> r.volume,
                                  cited_pages |-> r.pages]]))

\* the work of _insert_funding per record: funding_list.get on the None of a
\* null funding list raises (op "funding_list"), else one item per entry
FundingItems(L) ==
  PerPaper(L, LAMBDA data, pid :
    IF "funding" \in data.null
    THEN <<[op |-> "funding_list", pid |-> pid, f |-> Funding(NULL, NULL, NULL, <<>>)]>>
    ELSE MapSeq(data.funding, LAMBDA f : [op |-> "agency", pid |-> pid, f |-> f]))

\* paa_rows: the pending (sc_aff, paper, author) triples whose affiliation is
\* in _aff_cache and whose paper_author link id came back from the insert
PaaRows(L) ==
  MapSeq(SelectSeq(L.pending,
                   LAMBDA p : /\ p.sc_aff \in DOMAIN L.cache["affiliations"]
                              /\ <<p.pid, p.author_id>> \in DOMAIN L.pa_map),
         LAMBDA p : [key |-> <<L.pa_map[<<p.pid, p.author_id>>],
                               L.cache["affiliations"][p.sc_aff]>>,
                     attrs |-> [x \in {} |-> NULL]])

\* the code after a stage's command: the fetchall loops
Finalise(L) ==
  LET stage == L.pc
      dim == CASE stage = "dim_sources" -> "sources"
               [] stage = "dim_affiliations" -> "affiliations"
               [] stage = "dim_authors" -> "authors"
               [] stage = "dim_subjects" -> "subject_areas"
               [] stage = "dim_keywords" -> "keywords"
               [] OTHER -> "none"
  IN CASE dim # "none" ->
            [L EXCEPT !.cache[dim] = FetchInto(@, L.ret), !.ret = <<>>]
       [] stage = "ins_papers" ->
            LET paper_id_map == FetchInto(EmptyDict, L.ret)
            IN [L EXCEPT !.paper_ids_ordered =
                           MapSeq(L.json_list,
                                  LAMBDA d : Get(paper_id_map, d.core.dc_identifier)),
                         !.ret = <<>>]
       [] stage = "ins_paper_authors" ->
            [L EXCEPT !.pa_map = FetchInto(EmptyDict, L.ret), !.ret = <<>>]
       [] OTHER -> [L EXCEPT !.ret = <<>>]

\* an exception leaves the call: dberr = it is a storage error, after which
\* the connection's transaction is aborted until it is rolled back.  The
\* traceback names the stage, and within _insert_funding the statement.
Raise(L, dberr) ==
  [L EXCEPT !.pc = "except", !.queue = <<>>, !.aborted = @ \/ dberr,
            !.failed_at = IF L.pc = "funding" /\ L.queue # <<>>
                          THEN Head(L.queue).op ELSE L.pc]

\* the code before a stage's command: the work items of the stage
Enter(stage, L) ==
  LET ext == _extract_dimension_sets(L.json_list, L.disable)
      M == [L EXCEPT !.pc = stage]
  IN CASE stage = "dim_sources" ->
            IF ExtractRaises(L.json_list) \/ NullRaises(L.json_list, L.disable, {})
            THEN Raise(L, FALSE)
            ELSE [M EXCEPT !.queue = ext.sources]
       [] stage = "dim_affiliations" -> [M EXCEPT !.queue = ext.affiliations]
       [] stage = "dim_authors" -> [M EXCEPT !.queue = ext.authors]
       [] stage = "dim_subjects" -> [M EXCEPT !.queue = ext.subjects]
       [] stage = "dim_keywords" -> [M EXCEPT !.queue = AllKeywords(ext)]
       [] stage = "gather_papers" ->
            [M EXCEPT !.queue = L.json_list, !.rows = <<>>]
       [] stage = "gather_authors" ->
            [M EXCEPT !.queue = AuthorItems(L), !.rows = <<>>, !.pending = <<>>]
       [] stage = "gather_keywords" ->
            [M EXCEPT !.queue = KeywordItems(L), !.rows = <<>>]
       [] stage = "gather_subjects" ->
            [M EXCEPT !.queue = SubjectItems(L), !.rows = <<>>]
       [] stage \in {"ins_papers", "ins_paper_authors", "ins_paper_keywords",
                     "ins_paper_subjects"} ->
            [M EXCEPT !.queue = L.rows]
       [] stage = "ins_paa" -> [M EXCEPT !.queue = PaaRows(L)]
       [] stage = "ins_references" ->
            IF \/ ReferencesRaise(L)
               \/ \E r \in Range(ReferenceRows(L)) : r.key[2] = ParseErr
            THEN Raise(L, FALSE)
            ELSE [M EXCEPT !.queue = ReferenceRows(L)]
       [] stage = "funding" -> [M EXCEPT !.queue = FundingItems(L)]
       [] stage = "return" -> M

(***************************************************************************)
(* Steps of a call.  Each step runs at most one SQL statement; its outcome *)
(* is [status, table, rows, L, fk]: the table written and its rows         *)
(* afterwards, the loader afterwards, and whether the statement referenced *)
(* a row that does not exist.                                              *)
(***************************************************************************)
Ids(rows) == {r.id : r \in rows}

\* the rows a proposed row of table t references exist in l's view
RefsExist(l, t, row) ==
  LET has(tbl, id) == id \in Ids(Visible(l, tbl))
  IN CASE t = "papers" ->
            row.attrs.source_id = NoId \/ has("sources", row.attrs.source_id)
       [] t = "paper_authors" ->
            has("papers", row.key[1]) /\ has("authors", row.key[2])
       [] t = "paper_author_affiliations" ->
            has("paper_authors", row.key[1]) /\ has("affiliations", row.key[2])
       [] t = "paper_keywords" ->
            has("papers", row.key[1]) /\ has("keywords", row.key[2])
       [] t = "paper_subject_areas" ->
            has("papers", row.key[1]) /\ has("subject_areas", row.key[2])
       [] t = "reference_papers" -> has("papers", row.key[1])
       [] t = "paper_funding" ->
            has("papers", row.key[1]) /\ has("funding_agencies", row.key[2])
       [] OTHER -> TRUE

NoWrite(L) == [status |-> "ok", table |-> "none", L |-> L, fk |-> FALSE]
Write(t, rows, L) == [status |-> "ok", table |-> t, rows |-> rows, L |-> L, fk |-> FALSE]
WriteFk(t, rows, L, fk) == [Write(t, rows, L) EXCEPT !.fk = fk]
Blocked == [status |-> "blocked"]
\* a statement that the storage rejects; fk = for a missing referenced row
Rejected(L, fk) ==
  [status |-> "ok", table |-> "none", L |-> Raise(L, TRUE), fk |-> fk]

Pop(L) == [L EXCEPT !.queue = Tail(@)]

\* the storage rejects a papers row without scopus_id where the column is
\* declared NOT NULL
NotNullViolation(t, row) ==
  t = "papers" /\ row.key = NULL /\ scn.paper_key_required

\* one row of the stage's execute_values command.  A new page is a new
\* command: what fetchall returns afterwards is the last page's rows.  The
\* storage rejects an inserted row that references a missing row.
BulkRowOut(l) ==
  LET L == ld[l]
      sql == SqlOfStage(L.pc)
      row == Head(L.queue)
      ret == IF Len(L.ret) = PageSize THEN <<>> ELSE L.ret
      res == Upsert(l, sql, row, {ret[i].key : i \in DOMAIN ret})
      fk == ~RefsExist(l, sql.table, row)
  IN IF L.aborted THEN Rejected(L, FALSE)
     ELSE IF NotNullViolation(sql.table, row) THEN Rejected(L, FALSE)
     ELSE IF res.status = "blocked" THEN Blocked
     ELSE IF res.status = "error" THEN Rejected(L, fk)
     ELSE IF res.inserted /\ fk THEN Rejected(L, TRUE)
     ELSE WriteFk(sql.table, res.rows,
                  [Pop(L) EXCEPT !.ret =
                     IF sql.on_conflict = "update"
                     THEN Append(ret, [id |-> res.id, key |-> row.key])
                     ELSE ret],
                  fk)

\* cache lookup with the single-row fallback upsert on a miss:
\* [status, wrote, rows, id, L]
Resolve(l, L, dim, sqlname, row) ==
  IF Truthy(row.key) /\ row.key \in DOMAIN L.cache[dim]
  THEN [status |-> "ok", wrote |-> FALSE, id |-> L.cache[dim][row.key], L |-> L]
  ELSE IF L.aborted THEN [status |-> "error"]
  ELSE LET res == Upsert(l, Sql(sqlname), row, {})
       IN IF res.status = "blocked" THEN [status |-> "blocked"]
          ELSE [status |-> "ok", wrote |-> TRUE, rows |-> res.rows, id |-> res.id,
                L |-> IF Truthy(row.key)
                      THEN [L EXCEPT !.cache[dim] = Put(@, row.key, res.id)]
                      ELSE L]

\* the outcome of a gather step: the fallback statement's write, if any, and
\* the loader M after the rest of the loop body, which raised iff failed
Gathered(l, dim, rs, M, failed) ==
  LET N == IF failed THEN Raise(rs.L, FALSE) ELSE M
  IN IF rs.wrote THEN Write(dim, rs.rows, N) ELSE NoWrite(N)

\* _resolve_source_id
_resolve_source_id(l, L, data) ==
  Resolve(l, L, "sources", "sources_single", SourceRow(data))

\* one record of the paper gathering loop; source_info.get raises on the None
\* of a null source
GatherPaperOut(l) ==
  LET L == ld[l]
      data == Head(L.queue)
      rs == _resolve_source_id(l, L, data)
      row == PaperRow(data.core, rs.id)
  IN IF "source" \in data.null THEN NoWrite(Raise(L, FALSE))
     ELSE IF rs.status = "blocked" THEN Blocked
     ELSE IF rs.status = "error" THEN Rejected(L, FALSE)
     ELSE Gathered(l, "sources", rs,
                   [Pop(rs.L) EXCEPT !.rows = Append(@, row)],
                   ParseErr \in {row.attrs.publication_year,
                                 row.attrs.cited_by_count})

\* int(author.get("@seq", 0))
AuthorSeq(author) == IF author.seq = ABSENT THEN 0 ELSE IntOf(author.seq)

\* one author of the author gathering loop
GatherAuthorOut(l) ==
  LET L == ld[l]
      it == Head(L.queue)
      rs == Resolve(l, L, "authors", "authors_single", AuthorRow(it.author))
      seq == AuthorSeq(it.author)
      affs == SelectSeq(it.author.affiliation, Truthy)
  IN IF rs.status = "blocked" THEN Blocked
     ELSE IF rs.status = "error" THEN Rejected(L, FALSE)
     ELSE Gathered(l, "authors", rs,
            [Pop(rs.L) EXCEPT
               !.rows = Append(@, [key |-> <<it.pid, rs.id>>,
                                   attrs |-> [author_sequence |-> seq]]),
               !.pending = @ \o MapSeq(affs, LAMBDA a :
                              [sc_aff |-> a, pid |-> it.pid, author_id |-> rs.id])],
            seq = ParseErr)

\* one keyword of the keyword gathering loop (_insert_keyword_single on a miss)
GatherKeywordOut(l) ==
  LET L == ld[l]
      it == Head(L.queue)
      rs == Resolve(l, L, "keywords", "keywords_single",
                    KeywordRow(it.val, it.kw_type))
  IN IF rs.status = "blocked" THEN Blocked
     ELSE IF rs.status = "error" THEN Rejected(L, FALSE)
     ELSE Gathered(l, "keywords", rs,
            [Pop(rs.L) EXCEPT
               !.rows = Append(@, [key |-> <<it.pid, rs.id>>,
                                   attrs |-> [keyword_type |-> it.kw_type]])],
            FALSE)

\* one subject area of the subject gathering loop
GatherSubjectOut(l) ==
  LET L == ld[l]
      it == Head(L.queue)
      rs == Resolve(l, L, "subject_areas", "subjects_single", SubjectRow(it.sa))
  IN IF rs.status = "blocked" THEN Blocked
     ELSE IF rs.status = "error" THEN Rejected(L, FALSE)
     ELSE Gathered(l, "subject_areas", rs,
            [Pop(rs.L) EXCEPT
               !.rows = Append(@, [key |-> <<it.pid, rs.id>>,
                                   attrs |-> [x \in {} |-> NULL]])],
            FALSE)

(***************************************************************************)
(* Funding: row by row, select-then-insert                                 *)
(***************************************************************************)
\* name = f.get("xocs:funding-agency") or (sc_id and f"scopus_agency_{sc_id}")
AgencyName(f) ==
  IF Truthy(f.agency) THEN f.agency
  ELSE IF Truthy(f.agency_id) THEN "scopus_agency_" \o f.agency_id
  ELSE f.agency_id

AgencyRow(f) ==
  [key |-> IF Truthy(f.agency_id) THEN f.agency_id ELSE NULL,
   attrs |-> [agency_name |-> AgencyName(f), agency_acronym |-> f.acronym,
              agency_country |-> f.country]]

\* the _link_funding calls of _insert_funding for one resolved agency: one per
\* grant id, [None] when the entry has none; no call does anything when the
\* agency did not resolve
LinkItems(it, agency_id) ==
  IF agency_id = NoId THEN <<>>
  ELSE MapSeq(IF it.f.grants = <<>> THEN <<NULL>> ELSE it.f.grants,
              LAMBDA g : [op |-> "link", pid |-> it.pid,
                          agency_id |-> agency_id, grant |-> g])

\* the rows the SELECT of _resolve_funding_agency matches: by external id
\* when the entry has one, else by name and country (IS NOT DISTINCT FROM)
AgencyMatches(l, f) ==
  IF Truthy(f.agency_id)
  THEN {r \in Visible(l, "funding_agencies") : r.key = f.agency_id}
  ELSE {r \in Visible(l, "funding_agencies") :
          /\ r.attrs.agency_name = AgencyName(f)
          /\ r.attrs.agency_country = f.country}

\* fetchone() of a SELECT: any one of the matching rows, None without a match
Fetchone(rows) == IF rows = {} THEN {NoId} ELSE Ids(rows)

\* the item at the head of the funding queue is replaced by items
Replace(L, items) == [L EXCEPT !.queue = items \o Tail(@)]

\* a plain INSERT of row into table t by l, with id = the next serial value
InsertRow(l, t, row) ==
  db[t] \cup {[id |-> seqv[t] + 1, key |-> row.key, attrs |-> row.attrs,
               tx |-> l, new |-> TRUE, old |-> row.attrs]}

\* another transaction's uncommitted row holds the unique key
HeldByOther(l, t, key) ==
  \E r \in db[t] : r.key = key /\ r.new /\ r.tx \notin {0, l}

\* a SELECT that compares the grant id with "=": a null grant matches nothing
LinkMatchesNullDistinct(l, key) ==
  {r \in Visible(l, "paper_funding") : r.key = key /\ key[3] # NULL}

\* the rows the SELECT of _link_funding matches: grant_id IS NOT DISTINCT FROM
LinkMatches(l, key) ==
  {r \in Visible(l, "paper_funding") : r.key = key}

\* one statement of _insert_funding for the item at the head of the queue;
\* fetched = the id its SELECT's fetchone() gave.
\*   funding_list:    no statement: the funding list is null
\*   agency:          SELECT the agency; INSERT it when it has no external id
\*   agency_insert:   INSERT ... SELECT ... WHERE NOT EXISTS, for an external id
\*   agency_wait:     that INSERT waiting for the holder of the unique key
\*   agency_reselect: the fallback SELECT after an INSERT of no row
\*   link:            SELECT 1 FROM paper_funding
\*   link_insert:     INSERT INTO paper_funding
FundOut(l, fetched) ==
  LET L == ld[l]
      it == Head(L.queue)
      t == "funding_agencies"
      newid == seqv[t] + 1
      linkrow == [key |-> <<it.pid, it.agency_id, it.grant>>,
                  attrs |-> [x \in {} |-> NULL]]
  IN CASE it.op = "funding_list" -> NoWrite(Raise(L, FALSE))
       [] it.op = "agency" ->
            IF ~Truthy(it.f.agency_id) /\ ~Truthy(AgencyName(it.f))
            THEN NoWrite(Pop(L))
            ELSE IF L.aborted THEN Rejected(L, FALSE)
            ELSE IF fetched # NoId
            THEN NoWrite(Replace(L, LinkItems(it, fetched)))
            ELSE IF Truthy(it.f.agency_id)
            THEN NoWrite(Replace(L, <<[it EXCEPT !.op = "agency_insert"]>>))
            ELSE Write(t, InsertRow(l, t, AgencyRow(it.f)),
                       Replace(L, LinkItems(it, newid)))
       [] it.op = "agency_insert" ->
            IF AgencyMatches(l, it.f) # {}
            THEN NoWrite(Replace(L, <<[it EXCEPT !.op = "agency_reselect"]>>))
            ELSE IF scn.agency_unique /\ HeldByOther(l, t, it.f.agency_id)
            THEN NoWrite(Replace(L, <<[it EXCEPT !.op = "agency_wait"]>>))
            ELSE Write(t, InsertRow(l, t, AgencyRow(it.f)),
                       Replace(L, LinkItems(it, newid)))
       [] it.op = "agency_wait" ->
            IF HeldByOther(l, t, it.f.agency_id) THEN Blocked
            ELSE IF \E r \in db[t] : r.key = it.f.agency_id
            THEN Rejected(L, FALSE)
            ELSE Write(t, InsertRow(l, t, AgencyRow(it.f)),
                       Replace(L, LinkItems(it, newid)))
       [] it.op = "agency_reselect" ->
            NoWrite(Replace(L, LinkItems(it, fetched)))
       [] it.op = "link" ->
            IF L.aborted THEN Rejected(L, FALSE)
            ELSE IF LinkMatches(l, linkrow.key) # {}
            THEN NoWrite(Pop(L))
            ELSE NoWrite(Replace(L, <<[it EXCEPT !.op = "link_insert"]>>))
       [] it.op = "link_insert" ->
            IF ~RefsExist(l, "paper_funding", linkrow) THEN Rejected(L, TRUE)
            ELSE IF scn.funding_unique /\ it.grant # NULL
                    /\ HeldByOther(l, "paper_funding", linkrow.key)
            THEN Blocked
            ELSE IF scn.funding_unique /\ it.grant # NULL
                    /\ \E r \in db["paper_funding"] : r.key = linkrow.key
            THEN Rejected(L, FALSE)
            ELSE Write("paper_funding", InsertRow(l, "paper_funding", linkrow),
                       Pop(L))

\* the ids fetchone() may give the statement at the head of the funding queue
FundFetch(l) ==
  LET it == Head(ld[l].queue)
  IN IF it.op \in {"agency", "agency_reselect"}
     THEN Fetchone(AgencyMatches(l, it.f))
     ELSE {NoId}

(***************************************************************************)
(* Scenarios: the records the callers submit                               *)
(***************************************************************************)
\* the same paper P1 as seen twice: first with its optional fields missing,
\* then with them filled in and a new citation count
Sparse ==
  [Record(Core("P1", "a", "5", NULL), Source("S1", NULL)) EXCEPT
     !.affiliation = <<Affil("F1", NULL)>>,
     !.authors = <<Author("A1", NULL, NULL, "1", <<"F1">>)>>,
     !.subjects = <<Subject("C1", NULL, NULL)>>,
     !.authkw = <<"k1">>,
     !.refs = <<Reference("1", "a")>>,
     !.funding = <<Funding("G1", NULL, NULL, <<>>)>>]

Filled ==
  [Record(Core("P1", "b", "12", "n1"), Source("S1", "b")) EXCEPT
     !.affiliation = <<Affil("F1", "b")>>,
     !.authors = <<Author("A1", "s1", "b", "2", <<"F1">>)>>,
     !.subjects = <<Subject("C1", "b", "b")>>,
     !.idxterms = <<"k1">>,
     !.refs = <<Reference("1", "b")>>,
     !.funding = <<Funding("G1", "n1", NULL, <<"g1">>)>>]

\* a second paper that shares P1's dimensions under other attribute values,
\* has no source identifier, and names its agency by name only
Other ==
  [Record(Core("P2", "c", ABSENT, "n2"), NoSource) EXCEPT
     !.affiliation = <<Affil("F1", "c")>>,
     !.authors = <<Author("A1", "s2", "c", ABSENT, <<"F1", "F2">>)>>,
     !.subjects = <<Subject("C1", "c", "c")>>,
     !.authkw = <<"k2">>,
     !.idxterms = <<"k2">>,
     !.funding = <<Funding(NULL, "n1", NULL, <<>>)>>]

\* a record whose citation count is no number
BadCount == Record(Core("P3", "a", "abc", "n1"), Source("S1", "a"))

\* record i of the bulk scenario: its own paper, author, keyword and subject,
\* the author at the one affiliation of all records
BulkRec(i) ==
  LET n == ToString(i)
  IN [Record(Core("P" \o n, "a", "1", "n1"), Source("S1", "a")) EXCEPT
        !.affiliation = <<Affil("F1", "a")>>,
        !.authors = <<Author("A" \o n, "s1", "a", "1", <<"F1">>)>>,
        !.subjects = <<Subject("C" \o n, "a", "a")>>,
        !.authkw = <<"k" \o n>>,
        !.funding = <<Funding("G1", "n1", NULL, <<"g1">>)>>]

BulkBatch(n) == [i \in 1..n |-> BulkRec(i)]

\* n records of two authors each: 2n paper-author rows for n papers
PairBatch(n) ==
  [i \in 1..n |->
     [BulkRec(i) EXCEPT
        !.authors = @ \o <<Author("A" \o ToString(n + i), "s1", "a", "2", <<"F1">>)>>]]

\* all sequences over S of length 1..n
SeqsUpTo(S, n) == UNION {[1..k -> S] : k \in 1..n}

\* a scenario: the batches a caller may submit, the loaders that take calls,
\* the number of calls in a run, and whether the schema has a unique
\* constraint on the external agency id and on the funding link, and a
\* NOT NULL constraint on papers.scopus_id
Scenario(name, batches, loaders) ==
  [name |-> name, batches |-> batches, loaders |-> loaders,
   max_calls |-> MaxBatches, agency_unique |-> TRUE, funding_unique |-> TRUE,
   paper_key_required |-> TRUE]

\* two papers that carry the same keyword text, one as author keyword and
\* one as indexed term
KwAuthor ==
  [Record(Core("P1", "a", "1", NULL), Source("S1", NULL)) EXCEPT
     !.authkw = <<"k1">>]
KwIndexed ==
  [Record(Core("P2", "b", "2", NULL), Source("S1", NULL)) EXCEPT
     !.idxterms = <<"k1">>]

\* a record with one entry in each repeatable group
OneOfEach == [Filled EXCEPT !.authkw = <<"k2">>]

\* a record with the citation count c
CountOf(c) == Record(Core("P5", "a", c, NULL), Source("S1", "a"))

\* a record without its coredata wrapper
NoCore == Record(MissingCore, Source("S1", "a"))

\* record r without its optional part g, and with a null value for it
Without(r, g) ==
  CASE g = "source" -> [r EXCEPT !.source = NoSource]
    [] g = "affiliation" -> [r EXCEPT !.affiliation = <<>>]
    [] g = "authors" -> [r EXCEPT !.authors = <<>>]
    [] g = "subject_areas" -> [r EXCEPT !.subjects = <<>>]
    [] g = "authkeywords" -> [r EXCEPT !.authkw = <<>>]
    [] g = "idxterms" -> [r EXCEPT !.idxterms = <<>>]
    [] g = "bibliography" -> [r EXCEPT !.refs = <<>>]
    [] g = "funding" -> [r EXCEPT !.funding = <<>>]
    [] g = "preferred_name" ->
         [r EXCEPT !.authors = MapSeq(@, LAMBDA a : [a EXCEPT !.given_name = NULL])]
WithNull(r, g) == [Without(r, g) EXCEPT !.null = {g}]

SeqScenarios ==
  {[Scenario("optional",
             {<<Without(OneOfEach, g)>> : g \in Optionals}
               \cup {<<WithNull(OneOfEach, g)>> : g \in Optionals},
             {1})
      EXCEPT !.max_calls = 1]}
  \cup
  {[Scenario("malformed", {<<NoCore>>, <<Filled, NoCore>>}, {1})
      EXCEPT !.paper_key_required = q] : q \in BOOLEAN}
  \cup
  {[Scenario("counts", {<<CountOf(c)>> : c \in {ABSENT, NULL, "", "abc", "12"}}, {1})
      EXCEPT !.max_calls = 1]}
  \cup
  {[Scenario("single",
             {<<OneOfEach>>} \cup {<<[OneOfEach EXCEPT !.single = {g}]>> : g \in Groups},
             {1})
      EXCEPT !.max_calls = 1]}
  \cup
  {Scenario("replay", SeqsUpTo({Sparse, Filled}, MaxBatchLen), {1}),
   Scenario("keywords", SeqsUpTo({KwAuthor, KwIndexed}, MaxBatchLen), {1}),
   Scenario("shared", SeqsUpTo({Filled, Other}, MaxBatchLen), {1}),
   Scenario("failing", SeqsUpTo({Sparse, BadCount}, MaxBatchLen), {1})}

\* two papers that share nothing but their funding agency and grant
FundedA ==
  [Record(Core("P1", "a", "1", NULL), NoSource) EXCEPT
     !.funding = <<Funding("G1", "n1", NULL, <<"g1">>)>>]
FundedB ==
  [Record(Core("P2", "b", "2", NULL), NoSource) EXCEPT
     !.funding = <<Funding("G1", "n1", NULL, <<"g1">>)>>]

ConcScenarios ==
  {[Scenario(name, IF name = "race_dims"
                   THEN {<<Sparse>>, <<Other>>, <<Filled, Filled>>}
                   ELSE {<<FundedA>>, <<FundedB>>, <<FundedB, FundedB>>},
             Loaders)
      EXCEPT !.agency_unique = u, !.funding_unique = u]
     : name \in {"race_dims", "race_funding"}, u \in BOOLEAN}

\* two papers that share no key, each with a source, an author, a subject
\* area, a keyword and a funding agency of its own
OrderA ==
  [Record(Core("P1", "a", "1", "n1"), Source("S1", "a")) EXCEPT
     !.authors = <<Author("A1", "s1", "a", "1", <<>>)>>,
     !.subjects = <<Subject("C1", "a", "a")>>,
     !.authkw = <<"k1">>,
     !.funding = <<Funding("G1", "n1", NULL, <<"g1">>)>>]
OrderB ==
  [Record(Core("P2", "b", "2", "n2"), Source("S2", "b")) EXCEPT
     !.authors = <<Author("A2", "s2", "b", "1", <<>>)>>,
     !.subjects = <<Subject("C2", "b", "b")>>,
     !.authkw = <<"k2">>,
     !.funding = <<Funding("G2", "n2", NULL, <<"g2">>)>>]

\* two workers, one call each, on batches of the same two papers in either
\* order
RaceScenarios ==
  {Scenario("race_order", {<<OrderA, OrderB>>, <<OrderB, OrderA>>}, Loaders)}

BulkScenarios ==
  {[Scenario("bulk",
             {BulkBatch(n) : n \in {1, PageSize, MaxBulk}}
               \cup {<<BulkRec(1), BulkRec(1)>>, PairBatch(MaxBulk - PageSize \div 2)},
             {1})
      EXCEPT !.max_calls = MaxBulkBatches]}

(***************************************************************************)
(* Actions                                                                 *)
(***************************************************************************)
\* every (dimension, natural key, id) of the loader's caches
CacheEntries(L) ==
  UNION {{<<d, k, L.cache[d][k]>> : k \in DOMAIN L.cache[d]} : d \in Dims}

\* the place of a table in the write order of a call: the dimension tables,
\* then papers, then each link table, then the funding tables
StageRank(t) ==
  CASE t \in Dims -> 1
    [] t = "papers" -> 2
    [] t = "paper_authors" -> 3
    [] t = "paper_author_affiliations" -> 4
    [] t = "paper_keywords" -> 5
    [] t = "paper_subject_areas" -> 6
    [] t = "reference_papers" -> 7
    [] t \in {"funding_agencies", "paper_funding"} -> 8

\* order = the ranks of the tables the call has written to, in the order of
\* its statements, a run of statements on tables of one rank counted once
NewHist ==
  [fk_miss |-> FALSE, maps |-> {}, inflight |-> {}, order |-> <<>>,
   start |-> [t \in Tables |-> {}],
   prev |-> [json_list |-> <<>>, result |-> [kind |-> "none", ids |-> <<>>],
             own_tx |-> FALSE]]

\* a step of loader l with the outcome out takes place
Apply(l, out) ==
  /\ out.status = "ok"
  /\ ld' = [ld EXCEPT ![l] = out.L]
  /\ IF out.table = "none"
     THEN UNCHANGED <<db, seqv>>
     ELSE /\ db' = [db EXCEPT ![out.table] = out.rows]
          /\ seqv' = [seqv EXCEPT ![out.table] = @ + 1]
  /\ hist' = [hist EXCEPT ![l].fk_miss = @ \/ out.fk,
                          ![l].maps = @ \cup CacheEntries(out.L),
                          ![l].order =
                            IF out.table = "none" THEN @
                            ELSE IF @ # <<>> /\ @[Len(@)] = StageRank(out.table) THEN @
                            ELSE Append(@, StageRank(out.table))]
  /\ UNCHANGED <<now, scn, ex>>

\* insert_papers_batch(json_list, commit) is called on loader l; through the
\* async wrapper the call runs on a loader of its own
Submit(l) ==
  /\ l \in scn.loaders
  /\ ld[l].pc = "idle"
  /\ ld[l].async \/ ~ld[l].cur_closed
  /\ now < scn.max_calls
  /\ \E json_list \in scn.batches, commit \in BOOLEAN :
       LET L == IF ld[l].async THEN NewLoader(TRUE, ld[l].disable, TRUE) ELSE ld[l]
       IN /\ ld' = [ld EXCEPT ![l] =
                      [L EXCEPT !.pc = "extract", !.json_list = json_list,
                                !.commit = commit,
                                !.own_tx = L.owns /\ commit, !.queue = <<>>,
                                !.ret = <<>>, !.failed_at = "none"]]
          /\ hist' = [m \in Loaders |->
                        IF m = l
                        THEN [hist[l] EXCEPT
                                !.start = [t \in Tables |-> Ids(Visible(l, t))],
                                !.prev = [json_list |-> ld[l].json_list,
                                          result |-> ld[l].result,
                                          own_tx |-> ld[l].own_tx],
                                !.maps = IF ld[l].async THEN {} ELSE @,
                                !.order = <<>>,
                                !.inflight = {k \in Loaders \ {l} : ld[k].pc # "idle"}]
                        ELSE IF ld[m].pc # "idle"
                        THEN [hist[m] EXCEPT !.inflight = @ \cup {l}]
                        ELSE hist[m]]
  /\ now' = now + 1
  /\ UNCHANGED <<db, seqv, scn, ex>>

\* the code from the end of a stage's work to the next statement: the
\* stage's fetchall loop, the next stage's setup, and so on through the
\* stages that have no work
RECURSIVE Continue(_)
Continue(L) ==
  CHOOSE R \in {IF M.queue = <<>> /\ M.pc \notin {"return", "except"}
                THEN Continue(M) ELSE M :
                M \in {Enter(NextStage(L.pc), F) : F \in {Finalise(L)}}} : TRUE

\* the stage's work is done: on to the next stage that has work
Advance(l) ==
  /\ ld[l].pc \in Range(Stages) \ {"return"}
  /\ ld[l].queue = <<>>
  /\ \E M \in {Continue(ld[l])} : Apply(l, NoWrite(M))

BulkRow(l) ==
  /\ ld[l].pc \in BulkStages
  /\ ld[l].queue # <<>>
  /\ Apply(l, BulkRowOut(l))

GatherPaper(l) ==
  /\ ld[l].pc = "gather_papers"
  /\ ld[l].queue # <<>>
  /\ Apply(l, GatherPaperOut(l))

GatherAuthor(l) ==
  /\ ld[l].pc = "gather_authors"
  /\ ld[l].queue # <<>>
  /\ Apply(l, GatherAuthorOut(l))

GatherKeyword(l) ==
  /\ ld[l].pc = "gather_keywords"
  /\ ld[l].queue # <<>>
  /\ Apply(l, GatherKeywordOut(l))

GatherSubject(l) ==
  /\ ld[l].pc = "gather_subjects"
  /\ ld[l].queue # <<>>
  /\ Apply(l, GatherSubjectOut(l))

FundStep(l) ==
  /\ ld[l].pc = "funding"
  /\ ld[l].queue # <<>>
  /\ \E fetched \in FundFetch(l) : Apply(l, FundOut(l, fetched))

\* the call has ended: the loader is idle again; the async worker closes its
\* loader, which closes the connection and so discards an open transaction
Ended(l, L, kind, tables) ==
  /\ ld' = [ld EXCEPT ![l] =
              [L EXCEPT !.pc = "idle", !.queue = <<>>, !.ret = <<>>,
                        !.aborted = IF L.own_tx \/ L.async THEN FALSE ELSE @,
                        !.cur_closed = L.async, !.conn_closed = L.async,
                        !.result = [kind |-> kind,
                                    ids |-> IF kind = "ok"
                                            THEN L.paper_ids_ordered ELSE <<>>]]]
  /\ db' = IF L.async /\ ~L.own_tx THEN RollbackTx(l, tables) ELSE tables
  /\ UNCHANGED <<seqv, now, scn, hist, ex>>

\* a return that commits whatever the loader's mode
ReturnAlwaysCommit(l) ==
  /\ ld[l].pc = "return"
  /\ Ended(l, ld[l], "ok", CommitTx(l, db))

\* return paper_ids, after conn.commit() when the loader manages the transaction
Return(l) ==
  /\ ld[l].pc = "return"
  /\ Ended(l, ld[l], "ok", IF ld[l].own_tx THEN CommitTx(l, db) ELSE db)

\* except Exception: conn.rollback() when the loader manages the transaction; raise
Except(l) ==
  /\ ld[l].pc = "except"
  /\ Ended(l, ld[l], "raised", IF ld[l].own_tx THEN RollbackTx(l, db) ELSE db)

\* the caller's transaction is open: it holds writes or is aborted
TxOpen(l) == ld[l].aborted \/ \E t \in Tables : \E r \in db[t] : r.tx = l

\* the caller of a loader that does not manage the transaction commits it
\* (a commit of an aborted transaction rolls it back)
CallerCommit(l) ==
  /\ ld[l].pc = "idle" /\ ~ld[l].async /\ ~ld[l].conn_closed /\ TxOpen(l)
  /\ db' = IF ld[l].aborted THEN RollbackTx(l, db) ELSE CommitTx(l, db)
  /\ ld' = [ld EXCEPT ![l].aborted = FALSE]
  /\ UNCHANGED <<seqv, now, scn, hist, ex>>

\* the caller rolls the transaction back
CallerRollback(l) ==
  /\ ld[l].pc = "idle" /\ ~ld[l].async /\ ~ld[l].conn_closed /\ TxOpen(l)
  /\ db' = RollbackTx(l, db)
  /\ ld' = [ld EXCEPT ![l].aborted = FALSE]
  /\ UNCHANGED <<seqv, now, scn, hist, ex>>

\* close(): the cursor is closed; the connection is closed, and its open
\* transaction discarded, only when the loader opened it
Close(l) ==
  /\ ld[l].pc = "idle" /\ ~ld[l].async /\ ~ld[l].cur_closed
  /\ ld' = [ld EXCEPT ![l].cur_closed = TRUE, ![l].conn_closed = ld[l].owns,
                       ![l].aborted = IF ld[l].owns THEN FALSE ELSE @]
  /\ db' = IF ld[l].owns THEN RollbackTx(l, db) ELSE db
  /\ UNCHANGED <<seqv, now, scn, hist, ex>>

Call(l) ==
  \/ Submit(l)
  \/ Advance(l)
  \/ BulkRow(l)
  \/ GatherPaper(l)
  \/ GatherAuthor(l)
  \/ GatherKeyword(l)
  \/ GatherSubject(l)
  \/ FundStep(l)
  \/ Return(l)
  \/ Except(l)

\* the outcome of the next statement of loader l's call
NextOut(l) ==
  CASE ld[l].pc \in BulkStages -> BulkRowOut(l)
    [] ld[l].pc = "gather_papers" -> GatherPaperOut(l)
    [] ld[l].pc = "gather_authors" -> GatherAuthorOut(l)
    [] ld[l].pc = "gather_keywords" -> GatherKeywordOut(l)
    [] ld[l].pc = "gather_subjects" -> GatherSubjectOut(l)
    [] ld[l].pc = "funding" -> FundOut(l, NoId)

\* the table and key of the row that the next statement of l's call proposes
Wanted(l) ==
  LET L == ld[l]
      it == Head(L.queue)
  IN CASE L.pc \in BulkStages -> [table |-> SqlOfStage(L.pc).table, key |-> it.key]
       [] L.pc = "gather_papers" -> [table |-> "sources", key |-> SourceRow(it).key]
       [] L.pc = "gather_authors" -> [table |-> "authors", key |-> it.author.auid]
       [] L.pc = "gather_keywords" -> [table |-> "keywords", key |-> it.val]
       [] L.pc = "gather_subjects" -> [table |-> "subject_areas", key |-> it.sa.code]
       [] L.pc = "funding" ->
            IF it.op = "link_insert"
            THEN [table |-> "paper_funding",
                  key |-> <<it.pid, it.agency_id, it.grant>>]
            ELSE [table |-> "funding_agencies", key |-> it.f.agency_id]

\* the transactions that the next statement of l's call waits for: the
\* holders of the row with the key it proposes
WaitsFor(l) ==
  IF ld[l].pc \in Range(Stages) \ {"extract", "return"} /\ ld[l].queue # <<>>
     /\ NextOut(l).status = "blocked"
  THEN {r.tx : r \in {x \in db[Wanted(l).table] : x.key = Wanted(l).key}} \ {0, l}
  ELSE {}

\* the storage finds a cycle of waiting transactions and ends the wait of
\* one of them, l, with an error (deadlock detected): l's statement raises
DeadlockDetected(l) ==
  /\ \E m \in WaitsFor(l) : l \in WaitsFor(m)
  /\ Apply(l, Rejected(ld[l], FALSE))

(***************************************************************************)
(* The CSV exporter: ScopusCSVExporter                                     *)
(***************************************************************************)
\* the kinds of entity that have a seen-set, an id map and an id counter
ExKinds == Dims \cup {"papers", "funding_agencies"}

\* csv.writer: None is written as the empty string, any other value as str()
CellS(v) == IF v = NULL THEN "" ELSE v
CellI(n) == ToString(n)
CellId(n) == IF n = NoId THEN "" ELSE ToString(n)
CellB(b) == IF b THEN "True" ELSE "False"

\* ScopusCSVExporter.__init__: empty seen-sets and maps, counters at 1, and
\* the CSV files (their header line left out).  err = the running call has
\* raised; result = the outcome of the last export_papers_batch
NewExporter ==
  [seen |-> [k \in ExKinds |-> {}],
   id_map |-> [k \in ExKinds |-> EmptyDict],
   counter |-> [k \in ExKinds \cup {"paper_authors"} |-> 1],
   files |-> [f \in Tables |-> <<>>],
   json_list |-> <<>>, paper_ids_ordered |-> <<>>, err |-> FALSE,
   result |-> [kind |-> "none", ids |-> <<>>]]

\* op applied to each element of s in turn, from E0
FoldSeq(Op(_, _), E0, s) ==
  LET f[i \in 0..Len(s)] == IF i = 0 THEN E0 ELSE Op(f[i - 1], s[i])
  IN f[Len(s)]

\* writer.writerow(row); file.flush()
WriteRow(E, f, row) == [E EXCEPT !.files[f] = Append(@, row)]

\* id = counter; counter += 1; id_map[key] = id
Alloc(E, k, key) ==
  [E EXCEPT !.counter[k] = @ + 1, !.id_map[k] = Put(@, key, E.counter[k])]

\* seen.add(key)
MarkSeen(E, k, key) == [E EXCEPT !.seen[k] = @ \cup {key}]

\* an exception leaves the call: what was written stays written
ExRaise(E) == [E EXCEPT !.err = TRUE]

\* [id] + list(data) of a dimension, as written to its CSV file
DimCsvRow(k, id, row) ==
  CASE k = "sources" ->
         <<CellI(id), CellS(row.attrs.source_name), CellS(row.attrs.source_abbrev),
           CellS(row.key), CellS(row.attrs.issn_print),
           CellS(row.attrs.issn_electronic), CellS(row.attrs.publisher),
           CellS(row.attrs.source_type)>>
    [] k = "affiliations" ->
         <<CellI(id), CellS(row.key), CellS(row.attrs.affiliation_name),
           CellS(row.attrs.city), CellS(row.attrs.state),
           CellS(row.attrs.country), CellS(row.attrs.postal_code)>>
    [] k = "authors" ->
         <<CellI(id), CellS(row.key), CellS(row.attrs.surname),
           CellS(row.attrs.given_name), CellS(row.attrs.initials),
           CellS(row.attrs.indexed_name)>>
    [] k = "subject_areas" ->
         <<CellI(id), CellS(row.key), CellS(row.attrs.subject_name),
           CellS(row.attrs.subject_abbrev)>>
    [] k = "keywords" ->
         <<CellI(id), CellS(row.key), CellS(row.attrs.keyword_type)>>

\* ScopusCSVExporter._extract_dimension_sets: as the loader's, without the
\* keys of the seen-sets
ExExtract(E, json_list) ==
  LET ext == _extract_dimension_sets(json_list, FALSE)
      new(k, rows) == SelectSeq(rows, LAMBDA r : r.key \notin E.seen[k])
      newkw(kws) == SelectSeq(kws, LAMBDA v : v \notin E.seen["keywords"])
  IN [sources |-> new("sources", ext.sources),
      affiliations |-> new("affiliations", ext.affiliations),
      authors |-> new("authors", ext.authors),
      subjects |-> new("subject_areas", ext.subjects),
      keywords_author |-> newkw(ext.keywords_author),
      keywords_indexed |-> newkw(ext.keywords_indexed)]

\* one entity of _write_dimensions: a new id, map entry, seen entry and row
\* unless the key is in the seen-set
WriteDimension(E, k, row) ==
  IF row.key \in E.seen[k] THEN E
  ELSE WriteRow(MarkSeen(Alloc(E, k, row.key), k, row.key),
                k, DimCsvRow(k, E.counter[k], row))

\* _write_dimensions: sources, affiliations, authors, subject areas, then
\* the author keywords and the indexed terms that are no author keyword
_write_dimensions(E, ext) ==
  LET dim(k, rows, E0) == FoldSeq(LAMBDA F, row : WriteDimension(F, k, row), E0, rows)
  IN dim("keywords", AllKeywords(ext),
       dim("subject_areas", ext.subjects,
         dim("authors", ext.authors,
           dim("affiliations", ext.affiliations,
             dim("sources", ext.sources, E)))))

\* the fallback of the link loops: id_map.get(key); on a miss a new id and
\* map entry, and a row and seen entry unless the key is in the seen-set
GetOrCreate(E, k, row) ==
  IF row.key \in DOMAIN E.id_map[k] THEN E
  ELSE LET F == Alloc(E, k, row.key)
       IN IF row.key \in E.seen[k] THEN F
          ELSE MarkSeen(WriteRow(F, k, DimCsvRow(k, E.counter[k], row)),
                        k, row.key)

\* ScopusCSVExporter._resolve_source_id: the mapped id, None without a
\* source id, else a new sources row
ExResolveSource(E, data) ==
  LET row == SourceRow(data)
      k == "sources"
  IN IF ~Truthy(row.key) \/ row.key \in DOMAIN E.id_map[k] THEN E
     ELSE WriteRow(MarkSeen(Alloc(E, k, row.key), k, row.key),
                   k, DimCsvRow(k, E.counter[k], row))

\* int(core.get("citedby-count") if core.get("citedby-count") else 0)
ExCitedByCount(core) ==
  IF core.citedby_count \in {ABSENT, NULL, ""} THEN 0
  ELSE IntOf(core.citedby_count)

\* the row written to papers.csv
PaperCsvRow(paper_id, core, source_id) ==
  <<CellI(paper_id), CellS(core.dc_identifier), CellS(core.eid), CellS(core.doi),
    CellS(core.title), CellS(core.description), CellS(core.coverDate),
    CellId(PubYear(core.coverDate)), CellId(source_id),
    CellS(core.aggregationType), CellS(core.volume),
    CellS(core.issueIdentifier), CellS(core.pageRange),
    CellS(core.startingPage), CellS(core.endingPage),
    CellI(ExCitedByCount(core)), CellB(core.openaccess = "2"),
    CellS(core.subtype), CellS(core.subtypeDescription)>>

\* one affiliation of an author: fallback row, then the link row
ExAuthorAffiliation(E, paper_author_id, sc_aff) ==
  IF E.err \/ ~Truthy(sc_aff) THEN E
  ELSE LET F == GetOrCreate(E, "affiliations", AffiliationRow(Affil(sc_aff, NULL)))
       IN WriteRow(F, "paper_author_affiliations",
                   <<CellI(paper_author_id), CellI(F.id_map["affiliations"][sc_aff])>>)

\* one author of a paper: fallback row, the paper_authors row, the
\* affiliation links
ExAuthor(E, paper_id, author) ==
  IF E.err \/ ~Truthy(author.auid) THEN E
  ELSE LET F == GetOrCreate(E, "authors", AuthorRow(author))
           author_id == F.id_map["authors"][author.auid]
           seq == AuthorSeq(author)
           paper_author_id == F.counter["paper_authors"]
           G == WriteRow([F EXCEPT !.counter["paper_authors"] = @ + 1],
                         "paper_authors",
                         <<CellI(paper_author_id), CellI(paper_id),
                           CellI(author_id), CellI(seq)>>)
       IN IF seq = ParseErr THEN ExRaise(F)
          ELSE FoldSeq(LAMBDA H, a : ExAuthorAffiliation(H, paper_author_id, a),
                       G, author.affiliation)

\* _get_or_create_keyword and the paper_keywords row
ExKeyword(E, paper_id, val, kw_type) ==
  IF E.err \/ ~Truthy(val) THEN E
  ELSE LET F == GetOrCreate(E, "keywords", KeywordRow(val, kw_type))
       IN WriteRow(F, "paper_keywords",
                   <<CellI(paper_id), CellI(F.id_map["keywords"][val]), kw_type>>)

\* one subject area of a paper: fallback row, then the link row
ExSubject(E, paper_id, sa) ==
  IF E.err \/ ~Truthy(sa.code) THEN E
  ELSE LET F == GetOrCreate(E, "subject_areas", SubjectRow(sa))
       IN WriteRow(F, "paper_subject_areas",
                   <<CellI(paper_id), CellI(F.id_map["subject_areas"][sa.code])>>)

\* one reference of a paper
ExReference(E, paper_id, r) ==
  IF E.err THEN E
  ELSE IF RefSeq(r) = ParseErr THEN ExRaise(E)
  ELSE WriteRow(E, "reference_papers",
                <<CellI(paper_id), CellI(RefSeq(r)), CellS(r.fulltext),
                  CellS(r.year), CellS(r.volume), CellS(r.pages)>>)

\* lookup_key of ScopusCSVExporter._resolve_funding_agency; NULL = return None
LookupKey(f) ==
  IF Truthy(f.agency_id) THEN "scopus_" \o f.agency_id
  ELSE IF Truthy(AgencyName(f)) /\ Truthy(f.country)
  THEN AgencyName(f) \o "_" \o f.country
  ELSE IF Truthy(AgencyName(f)) THEN AgencyName(f)
  ELSE NULL

\* one xocs:funding entry: the agency's id, a funding_agencies row on a miss,
\* and a paper_funding row per grant id ([None] without one)
ExFunding(E, paper_id, f) ==
  LET key == LookupKey(f)
      k == "funding_agencies"
      F == IF key \in DOMAIN E.id_map[k] THEN E
           ELSE LET G == Alloc(E, k, key)
                IN IF key \in E.seen[k] THEN G
                   ELSE MarkSeen(
                          WriteRow(G, k, <<CellI(E.counter[k]), CellS(AgencyName(f)),
                                           CellS(f.acronym), CellS(f.country),
                                           CellS(f.agency_id)>>),
                          k, key)
      grants == IF f.grants = <<>> THEN <<NULL>> ELSE f.grants
  IN IF E.err \/ key = NULL THEN E
     ELSE FoldSeq(LAMBDA H, g :
                    WriteRow(H, "paper_funding",
                             <<CellI(paper_id), CellI(F.id_map[k][key]), CellS(g)>>),
                  F, grants)

\* _process_funding: funding_list.get raises on the None of a null funding
\* list
ExProcessFunding(E, paper_id, data) ==
  IF E.err THEN E
  ELSE IF "funding" \in data.null THEN ExRaise(E)
  ELSE FoldSeq(LAMBDA X, f : ExFunding(X, paper_id, f), E, data.funding)

\* the loop of _process_papers_and_links without its seen check: a record is
\* exported again whenever it is met
ExRecordNoSkip(E, data) ==
  LET core == data.core
      sc_id == core.dc_identifier
      F == ExResolveSource(E, data)
      source_id == IF Truthy(data.source.srcid)
                   THEN F.id_map["sources"][data.source.srcid] ELSE NoId
      paper_id == F.counter["papers"]
      G == [MarkSeen(Alloc(F, "papers", sc_id), "papers", sc_id)
              EXCEPT !.paper_ids_ordered = Append(@, paper_id)]
      H == WriteRow(G, "papers", PaperCsvRow(paper_id, core, source_id))
      each(Op(_, _), s, E0) == FoldSeq(Op, E0, s)
  IN IF E.err THEN E
     ELSE IF PubYear(core.coverDate) = ParseErr THEN ExRaise(F)
     ELSE IF ExCitedByCount(core) = ParseErr THEN ExRaise(G)
     ELSE
       ExProcessFunding(
       each(LAMBDA X, r : ExReference(X, paper_id, r), data.refs,
       each(LAMBDA X, sa : ExSubject(X, paper_id, sa), data.subjects,
       each(LAMBDA X, v : ExKeyword(X, paper_id, v, "indexed"), IdxTerms(data),
       each(LAMBDA X, v : ExKeyword(X, paper_id, v, "author"), data.authkw,
       each(LAMBDA X, a : ExAuthor(X, paper_id, a), data.authors, H))))),
       paper_id, data)

\* one record of the loop of _process_papers_and_links
ExRecord(E, data) ==
  LET core == data.core
      sc_id == core.dc_identifier
      F == ExResolveSource(E, data)
      source_id == IF Truthy(data.source.srcid)
                   THEN F.id_map["sources"][data.source.srcid] ELSE NoId
      paper_id == F.counter["papers"]
      G == [MarkSeen(Alloc(F, "papers", sc_id), "papers", sc_id)
              EXCEPT !.paper_ids_ordered = Append(@, paper_id)]
      H == WriteRow(G, "papers", PaperCsvRow(paper_id, core, source_id))
      each(Op(_, _), s, E0) == FoldSeq(Op, E0, s)
  IN IF E.err THEN E
     ELSE IF sc_id \in E.seen["papers"]
     THEN [E EXCEPT !.paper_ids_ordered = Append(@, Get(E.id_map["papers"], sc_id))]
     ELSE IF PubYear(core.coverDate) = ParseErr THEN ExRaise(F)
     ELSE IF ExCitedByCount(core) = ParseErr THEN ExRaise(G)
     ELSE
       ExProcessFunding(
       each(LAMBDA X, r : ExReference(X, paper_id, r), data.refs,
       each(LAMBDA X, sa : ExSubject(X, paper_id, sa), data.subjects,
       each(LAMBDA X, v : ExKeyword(X, paper_id, v, "indexed"), IdxTerms(data),
       each(LAMBDA X, v : ExKeyword(X, paper_id, v, "author"), data.authkw,
       each(LAMBDA X, a : ExAuthor(X, paper_id, a), data.authors, H))))),
       paper_id, data)

\* export_papers_batch(json_list): extraction, the dimension files, then the
\* papers and their links record by record; returns the ordered paper ids
export_papers_batch(E, json_list) ==
  LET E0 == [E EXCEPT !.json_list = json_list, !.paper_ids_ordered = <<>>,
                      !.err = FALSE]
      E1 == _write_dimensions(E0, ExExtract(E0, json_list))
      E2 == FoldSeq(ExRecord, E1, json_list)
  IN IF json_list = <<>> THEN [E0 EXCEPT !.result = [kind |-> "ok", ids |-> <<>>]]
     ELSE IF ExtractRaises(json_list) \/ NullRaises(json_list, FALSE, E.seen["authors"])
     THEN [E0 EXCEPT !.err = TRUE, !.result = [kind |-> "raised", ids |-> <<>>]]
     ELSE [E2 EXCEPT !.result =
             IF E2.err THEN [kind |-> "raised", ids |-> <<>>]
             ELSE [kind |-> "ok", ids |-> E2.paper_ids_ordered]]

\* a record that lists one author twice and one text as author keyword and
\* as indexed term
Twice ==
  [Record(Core("P4", "a", "", NULL), Source("S2", "a")) EXCEPT
     !.authors = <<Author("A1", "s1", "a", "1", <<"F1">>),
                   Author("A1", "s1", "a", "2", <<"F1">>)>>,
     !.authkw = <<"k1">>,
     !.idxterms = <<"k1">>]

\* what a caller hands the exporter
CsvScenarios ==
  {Scenario("csv", SeqsUpTo({Sparse, Filled, Other, BadCount, Twice}, MaxBatchLen),
            {})}

\* a call of export_papers_batch
ExportBatch ==
  /\ scn.name = "csv"
  /\ now < scn.max_calls
  /\ \E json_list \in scn.batches : ex' = export_papers_batch(ex, json_list)
  /\ now' = now + 1
  /\ UNCHANGED <<db, seqv, ld, scn, hist>>

InitStorage ==
  /\ db = [t \in Tables |-> {}]
  /\ seqv = [t \in Tables |-> 0]
  /\ now = 0
  /\ hist = [l \in Loaders |-> NewHist]
  /\ ex = NewExporter

\* one synchronous loader, owned or borrowed connection, either flag value
Init ==
  /\ InitStorage
  /\ scn \in SeqScenarios
  /\ \E owns \in BOOLEAN, disable \in BOOLEAN :
       ld = [l \in Loaders |-> NewLoader(owns, disable, FALSE)]

Next ==
  \E l \in Loaders : Call(l) \/ CallerCommit(l) \/ CallerRollback(l) \/ Close(l)

Spec == Init /\ [][Next]_vars

\* the worker threads of one AsyncScopusDBLoader
InitAsync ==
  /\ InitStorage
  /\ scn \in ConcScenarios
  /\ \E disable \in BOOLEAN :
       ld = [l \in Loaders |-> NewLoader(TRUE, disable, TRUE)]

NextOwned == \E l \in Loaders : Call(l)

SpecAsync == InitAsync /\ [][NextOwned]_vars

\* one synchronous loader on its own connection, batches beyond one page
InitBulk ==
  /\ InitStorage
  /\ scn \in BulkScenarios
  /\ ld = [l \in Loaders |-> NewLoader(TRUE, FALSE, FALSE)]

SpecBulk == InitBulk /\ [][NextOwned]_vars

\* one ScopusCSVExporter and its caller
InitCsv ==
  /\ InitStorage
  /\ scn \in CsvScenarios
  /\ ld = [l \in Loaders |-> NewLoader(TRUE, FALSE, FALSE)]

SpecCsv == InitCsv /\ [][ExportBatch]_vars

\* two workers of one AsyncScopusDBLoader on batches that share their keys;
\* every worker thread that can take a step eventually takes one, and the
\* storage ends a cycle of waits
InitRace ==
  /\ InitStorage
  /\ scn \in RaceScenarios
  /\ \E disable \in BOOLEAN :
       ld = [l \in Loaders |-> NewLoader(TRUE, disable, TRUE)]

NextRace == \E l \in Loaders : Call(l) \/ DeadlockDetected(l)

SpecRace ==
  /\ InitRace /\ [][NextRace]_vars
  /\ \A l \in Loaders : WF_vars(Call(l) \/ DeadlockDetected(l))

\* every way the loader is run: synchronous, async workers, large batches
InitAll == Init \/ InitAsync \/ InitBulk

SpecAll == InitAll /\ [][Next]_vars

(***************************************************************************)
(* Properties                                                              *)
(***************************************************************************)
\* loader l has just finished a call (the state after Return or Except)
Finished(l) == ld[l].pc = "idle" /\ ld[l].result.kind # "none"

\* C1 (idempotence): when a loader that manages its transaction is called
\* twice in succession with the same batch and commit=True, the second call
\* returns the same list of paper ids as the first and leaves every table
\* with exactly the rows it had when the second call began.
C1_Idempotent ==
  \A l \in Loaders :
    (/\ Finished(l)
     /\ hist[l].prev.result.kind = "ok" /\ hist[l].prev.own_tx
     /\ ld[l].own_tx /\ ld[l].json_list = hist[l].prev.json_list)
    => /\ ld[l].result = hist[l].prev.result
       /\ \A t \in Tables : Ids(db[t]) = hist[l].start[t]

\* C2 (natural-key uniqueness): in every reachable storage state, no two rows
\* of a dimension table (sources, affiliations, authors, subject_areas,
\* keywords) carry the same natural key, whether the calls ran one after
\* another or on concurrent workers.  Rows without a key (NULL) share none.
C2_NaturalKeyUnique ==
  \A d \in Dims : \A r1, r2 \in db[d] :
    (r1.key # NULL /\ r1.key = r2.key) => r1 = r2

\* two workers started on an empty authors table with different batches,
\* upserted the same unseen author key, and both ended with the same id for it
C2_Witness ==
  /\ \A l \in Loaders :
       /\ Finished(l) /\ ld[l].async /\ ld[l].result.kind = "ok"
       /\ hist[l].start["authors"] = {}
       /\ "A1" \in DOMAIN ld[l].cache["authors"]
  /\ ld[1].cache["authors"]["A1"] = ld[2].cache["authors"]["A1"]
  /\ ld[1].json_list # ld[2].json_list

\* the statements of _resolve_funding_agency
AgencyOps == {"agency", "agency_insert", "agency_wait", "agency_reselect"}

\* C3 (funding-agency resolution): an agency with an external id is stored
\* once per external id, an agency without one once per (name, country), and
\* no call fails while resolving an agency, also when two workers resolve
\* the same new agency at the same time.
C3_AgencyResolvedOnce ==
  /\ \A r1, r2 \in db["funding_agencies"] :
       (r1.key # NULL /\ r1.key = r2.key) => r1 = r2
  /\ \A r1, r2 \in db["funding_agencies"] :
       (/\ r1.key = NULL /\ r2.key = NULL
        /\ r1.attrs.agency_name = r2.attrs.agency_name
        /\ r1.attrs.agency_country = r2.attrs.agency_country) => r1 = r2
  /\ \A l \in Loaders : ld[l].failed_at \notin AgencyOps

\* C4 (cache consistency): every entry (key -> id) of the caches of a loader
\* on its own connection names a row of the dimension table with that key
\* and that id, and the loader never maps one key to two ids, across calls
\* that return and calls that raise and are rolled back.
C4_CacheConsistent ==
  \A l \in Loaders :
    ld[l].owns =>
      /\ \A e \in CacheEntries(ld[l]) :
           \E r \in Visible(l, e[1]) : r.key = e[2] /\ r.id = e[3]
      /\ \A e1, e2 \in hist[l].maps :
           (e1[1] = e2[1] /\ e1[2] = e2[2]) => e1[3] = e2[3]

\* C5 (referential write invariant): whenever a call writes a paper row or a
\* link row, every row it references exists in the view of the call's
\* transaction.
C5_ReferencesExist == \A l \in Loaders : ~hist[l].fk_miss

\* C6 (order preservation): a call with N records of pairwise distinct
\* external ids that returns, returns N ids, the i-th being the id of the
\* papers row that carries the i-th record's external id, also for N beyond
\* one page of 100 rows.
C6_OrderPreserved ==
  \A l \in Loaders :
    LET B == ld[l].json_list
        scid(i) == B[i].core.dc_identifier
    IN (/\ Finished(l) /\ ld[l].result.kind = "ok"
        /\ \A i, j \in DOMAIN B : scid(i) = scid(j) => i = j)
       => /\ Len(ld[l].result.ids) = Len(B)
          /\ \A i \in DOMAIN B :
               \E r \in db["papers"] :
                 r.id = ld[l].result.ids[i] /\ r.key = scid(i)

\* C7 (replay): a record whose external id was stored by an earlier call, or
\* occurs earlier in the same batch, does not make the call fail in the
\* papers statement; the call returns for it the id of the existing row, and
\* no second papers row with its external id exists.
C7_Replay ==
  \A l \in Loaders :
    LET B == ld[l].json_list
        scid(i) == B[i].core.dc_identifier
        stored(i) == {r \in db["papers"] :
                        r.key = scid(i) /\ r.id \in hist[l].start["papers"]}
        earlier(i) == {j \in 1..(i - 1) : scid(j) = scid(i)}
    IN Finished(l) =>
         \A i \in DOMAIN B :
           (stored(i) # {} \/ earlier(i) # {}) =>
             /\ ld[l].failed_at # "ins_papers"
             /\ \A r1, r2 \in db["papers"] :
                  (r1.key = scid(i) /\ r2.key = scid(i)) => r1 = r2
             /\ ld[l].result.kind = "ok" =>
                  /\ \A r \in stored(i) : ld[l].result.ids[i] = r.id
                  /\ \A j \in earlier(i) :
                       ld[l].result.ids[i] = ld[l].result.ids[j]

\* the dimension row that the next statement of loader l proposes to an
\* upsert, if any: a row of a bulk dimension statement, or the row of a
\* single-row fallback statement after a cache miss
Proposed(l) ==
  LET L == ld[l]
      miss(d, row) ==
        IF Truthy(row.key) /\ row.key \in DOMAIN L.cache[d] THEN {}
        ELSE {[table |-> d, row |-> row]}
  IN IF L.queue = <<>> \/ L.aborted THEN {}
     ELSE CASE L.pc \in {"dim_sources", "dim_affiliations", "dim_authors",
                         "dim_subjects", "dim_keywords"} ->
                 {[table |-> SqlOfStage(L.pc).table, row |-> Head(L.queue)]}
            [] L.pc = "gather_papers" -> miss("sources", SourceRow(Head(L.queue)))
            [] L.pc = "gather_authors" ->
                 miss("authors", AuthorRow(Head(L.queue).author))
            [] L.pc = "gather_subjects" ->
                 miss("subject_areas", SubjectRow(Head(L.queue).sa))
            [] OTHER -> {}

\* this step runs the statement of loader l for the item at the head of its
\* queue, and the loop goes on
Executes(l) ==
  /\ ld[l].queue # <<>>
  /\ ld'[l].pc = ld[l].pc /\ ld'[l].queue = Tail(ld[l].queue)

\* loader l's statement takes place in this step on the stored row r of table
\* t, which is r2 afterwards
Updates(l, t, r, r2) ==
  /\ r \in db[t] /\ r2 \in db'[t]
  /\ r2.id = r.id /\ r2.tx = l /\ Executes(l)

FillableDims == {"sources", "affiliations", "authors", "subject_areas"}

\* C8 (coalesce-merge): when an upsert, bulk or single-row fallback, meets the
\* stored row of a dimension, every attribute that is stored as NULL and that
\* the new record carries non-null is stored with the record's value
\* afterwards, and an attribute the record carries as NULL keeps its value.
C8_CoalesceMerge ==
  [][\A l \in Loaders : \A p \in Proposed(l) :
       \A r \in db[p.table] : \A r2 \in db'[p.table] :
         (/\ p.table \in FillableDims
          /\ r.key = p.row.key /\ Updates(l, p.table, r, r2))
         => \A c \in DOMAIN p.row.attrs :
              /\ (r.attrs[c] = NULL /\ p.row.attrs[c] # NULL)
                   => r2.attrs[c] = p.row.attrs[c]
              /\ p.row.attrs[c] = NULL => r2.attrs[c] = r.attrs[c]]_vars

\* C9 as stated (non-destructive update): when a dimension row is sighted
\* again, an attribute that is stored non-null keeps its stored value,
\* whatever value the new record carries.
C9_KeepsStored ==
  [][\A t \in FillableDims :
       \A r \in db[t] \ db'[t] : \A r2 \in db'[t] \ db[t] :
         (r2.id = r.id /\ r2.tx # 0) =>
           \A c \in DOMAIN r.attrs : r.attrs[c] # NULL => r2.attrs[c] = r.attrs[c]]_vars

\* C9 (non-destructive update, amended): when a dimension row is sighted
\* again, no stored attribute becomes NULL: every attribute afterwards has
\* its stored value or the non-null value that the new record carries.
C9_NeverErased ==
  [][\A t \in FillableDims :
       \A r \in db[t] \ db'[t] : \A r2 \in db'[t] \ db[t] :
         (r2.id = r.id /\ r2.tx # 0) =>
           \E p \in Proposed(r2.tx) :
             /\ p.table = t /\ p.row.key = r.key /\ r2.key = r.key
             /\ \A c \in DOMAIN r.attrs :
                  \/ r2.attrs[c] = r.attrs[c]
                  \/ p.row.attrs[c] # NULL /\ r2.attrs[c] = p.row.attrs[c]]_vars

\* an open transaction has updated a committed author row: the surname,
\* stored non-null, now has the other non-null value of the new record
C9_Witness ==
  \E r \in db["authors"] :
    /\ r.tx # 0 /\ ~r.new
    /\ r.old.surname # NULL
    /\ r.attrs.surname \notin {NULL, r.old.surname}

\* C10 (paper immutability): when a record's external id already has a
\* papers row, the statement changes of that row only cited_by_count, which
\* becomes the record's count, and updated_at; every other column, title,
\* abstract, DOI and source reference included, keeps its first value.
C10_PaperImmutable ==
  [][\A r \in db["papers"] \ db'["papers"] :
       \A r2 \in db'["papers"] \ db["papers"] :
         (r2.id = r.id /\ r2.tx # 0) =>
           LET L == ld[r2.tx]
           IN /\ r2.key = r.key
              /\ L.pc = "ins_papers" /\ L.queue # <<>>
              /\ Head(L.queue).key = r.key
              /\ r2.attrs.cited_by_count = Head(L.queue).attrs.cited_by_count
              /\ \A c \in DOMAIN r.attrs \ {"cited_by_count", "updated_at"} :
                   r2.attrs[c] = r.attrs[c]]_vars

\* an open transaction has updated a stored paper from a record that carries
\* another title and another count than the stored row
C10_Witness ==
  \E r \in db["papers"] : \E l \in Loaders :
    /\ r.tx = l /\ ~r.new
    /\ r.attrs.cited_by_count # r.old.cited_by_count
    /\ \E i \in DOMAIN ld[l].json_list :
         LET core == ld[l].json_list[i].core
         IN /\ core.dc_identifier = r.key
            /\ core.title # r.attrs.title
            /\ CitedByCount(core) = r.attrs.cited_by_count

\* the batch of loader l carries the keyword text k as author keyword in one
\* record and as indexed term in another
MixedKeyword(l, k) ==
  LET B == ld[l].json_list
  IN \E i \in DOMAIN B :
       /\ k \in Range(KeywordVals(B[i].authkw))
       /\ \E j \in DOMAIN B \ {i} : k \in Range(KeywordVals(B[j].idxterms))

\* C11 as stated (keyword type precedence): after a call that returns and
\* commits, every keyword text that its batch carries as author keyword in
\* one record and as indexed term in another has exactly one keywords row,
\* and the row's keyword_type is "author".
C11_StoredAsAuthor ==
  \A l \in Loaders :
    (Finished(l) /\ ld[l].result.kind = "ok" /\ ld[l].own_tx) =>
      \A r1 \in db["keywords"] :
        MixedKeyword(l, r1.key) =>
          /\ r1.attrs.keyword_type = "author"
          /\ \A r2 \in db["keywords"] : r2.key = r1.key => r2 = r1

\* C11 (keyword type precedence, amended): the keyword statement of a batch
\* stores a text that the batch carries both as author keyword and as
\* indexed term with type "author" when the text has no row yet, and leaves
\* the type of an existing row as it is; no statement changes the type of a
\* keywords row (the first type wins).
C11_FirstTypeWins ==
  [][/\ \A r \in db["keywords"] \ db'["keywords"] :
          \A r2 \in db'["keywords"] \ db["keywords"] :
            r2.id = r.id => r2.attrs.keyword_type = r.attrs.keyword_type
     /\ \A l \in Loaders :
          (ld[l].pc = "dim_keywords" /\ Executes(l)
           /\ MixedKeyword(l, Head(ld[l].queue).key)) =>
            LET k == Head(ld[l].queue).key
            IN \E r2 \in db'["keywords"] :
                 /\ r2.key = k
                 /\ \A r3 \in db'["keywords"] : r3.key = k => r3 = r2
                 /\ IF \E r \in db["keywords"] : r.key = k
                    THEN \E r \in db["keywords"] :
                           /\ r.key = k /\ r2.id = r.id
                           /\ r2.attrs.keyword_type = r.attrs.keyword_type
                    ELSE r2.attrs.keyword_type = "author"]_vars

\* a call whose batch has the indexed term before the author keyword has
\* returned and committed, and the text's row, which the call inserted, has
\* type "author"
C11_Witness ==
  \E l \in Loaders :
    /\ Finished(l) /\ ld[l].result.kind = "ok" /\ ld[l].own_tx
    /\ ld[l].json_list = <<KwIndexed, KwAuthor>>
    /\ \E r \in db["keywords"] :
         /\ r.key = "k1" /\ r.id \notin hist[l].start["keywords"]
         /\ r.attrs.keyword_type = "author"

\* the connection of loader l holds no open and no aborted transaction, and
\* every row is committed
NoOpenTx(l) ==
  /\ ~ld[l].aborted
  /\ \A t \in Tables : \A r \in db[t] : r.tx # l /\ (r.tx = 0 => ~r.new)

\* C12 as stated (owned-connection mode): after every call on a loader that
\* owns its connection, whatever the commit argument, the connection holds no
\* open or aborted transaction: a call that returned has committed its
\* writes and a call that raised has rolled them back.
C12_OwnedEncapsulated ==
  \A l \in Loaders : (ld[l].owns /\ Finished(l)) => NoOpenTx(l)

\* C12 (owned-connection mode, amended): after every call with commit=True on
\* a loader that owns its connection, the connection holds no open or aborted
\* transaction; a call that returned has committed all writes, a call that
\* raised has left no row that was not there when it began and no changed
\* attribute, and a call that failed is reported as raised.
C12_OwnedCommitTrue ==
  \A l \in Loaders :
    (ld[l].owns /\ Finished(l) /\ ld[l].own_tx) =>
      /\ NoOpenTx(l)
      /\ (ld[l].failed_at # "none") <=> (ld[l].result.kind = "raised")
      /\ (ld[l].result.kind = "raised" /\ ~ld[l].async) =>
           \A t \in Tables :
             /\ Ids(db[t]) \subseteq hist[l].start[t]
             /\ \A r \in db[t] : r.attrs = r.old

\* a call with commit=True on an owned connection has raised after it had
\* inserted a sources row, and the table is empty again
C12_Witness ==
  \E l \in Loaders :
    /\ ld[l].owns /\ Finished(l) /\ ld[l].own_tx
    /\ ld[l].result.kind = "raised"
    /\ seqv["sources"] > 0 /\ db["sources"] = {}

\* a step of loader l's own code: a step of a call, or close()
LoaderStep(l) ==
  /\ ld'[l] # ld[l]
  /\ \/ ld[l].pc # "idle" \/ ld'[l].pc # "idle"
     \/ ld'[l].cur_closed # ld[l].cur_closed

\* C13 (borrowed-connection mode): no step of a loader built on a supplied
\* connection, in a call with commit=True or commit=False that returns or
\* raises, or in close(), commits or rolls back: every write the transaction
\* holds stays in it, an aborted transaction stays aborted, what a rollback
\* by the caller would restore is the same before and after the step, and
\* the connection is never closed.
C13_BorrowedNeverEnds ==
  [][ \A l \in Loaders :
        (~ld[l].owns /\ LoaderStep(l)) =>
          /\ ~ld'[l].conn_closed
          /\ ld[l].aborted => ld'[l].aborted
          /\ \A t \in Tables :
               /\ \A r \in db[t] \ db'[t] :
                    r.tx = l => \E r2 \in db'[t] \ db[t] :
                                   r2.id = r.id /\ r2.tx = l /\ r2.new = r.new
                                     /\ r2.old = r.old
               /\ RollbackTx(l, db')[t] = RollbackTx(l, db)[t] ]_vars

\* a borrowed-connection loader has run two batches, the second with
\* commit=True, and was closed: both papers are in the caller's open
\* transaction
C13_Witness ==
  \E l \in Loaders :
    /\ ~ld[l].owns /\ Finished(l) /\ ld[l].commit
    /\ ld[l].cur_closed /\ ~ld[l].conn_closed
    /\ hist[l].prev.result.kind = "ok" /\ ld[l].result.kind = "ok"
    /\ Cardinality({r \in db["papers"] : r.tx = l /\ r.new}) >= 2

\* the batch of loader l's call holds a record without its core wrapper
Malformed(l) == \E i \in DOMAIN ld[l].json_list : ld[l].json_list[i].core = MissingCore

\* C14 (malformed-record fail-fast): a call whose batch holds a record
\* without its core wrapper raises, the failure is raised by the extraction
\* stage, before any statement is issued, and on an owned connection no
\* papers row that was not there before the call exists afterwards.
C14_FailFast ==
  \A l \in Loaders :
    (Finished(l) /\ Malformed(l)) =>
      /\ ld[l].result.kind = "raised"
      /\ ld[l].failed_at = "extract"
      /\ ld[l].owns => Ids(db["papers"]) \subseteq hist[l].start["papers"]

\* the call of worker l raised while the call of worker m was in flight
FailedBeside(l, m) ==
  /\ l # m /\ ld[l].async /\ ld[m].async /\ m \in hist[l].inflight
  /\ Finished(l) /\ ld[l].result.kind = "raised"
  /\ Finished(m)

\* every id the call of worker m returned is a committed papers row
IdsCommitted(m) ==
  \A i \in DOMAIN ld[m].result.ids :
    /\ ld[m].result.ids[i] # NoId
    /\ \E r \in db["papers"] : r.id = ld[m].result.ids[i] /\ ~r.new

\* the batch names one paper twice: its papers command raises on its own
RepeatsPaper(json_list) ==
  \E i, j \in DOMAIN json_list :
    i < j /\ json_list[i].core.dc_identifier = json_list[j].core.dc_identifier

\* C15 (failure isolation in the async wrapper): when the call of one worker
\* raised while another batch was in flight, the failed worker's loader and
\* connection are closed and none of its writes is left, and the other
\* batch, unless it names one paper twice, has not raised: it has returned an
\* id for each of its records and its writes are committed.
C15_FailureIsolated ==
  \A l, m \in Loaders :
    (FailedBeside(l, m) /\ ~RepeatsPaper(ld[m].json_list)) =>
      /\ ld[l].cur_closed /\ ld[l].conn_closed /\ NoOpenTx(l)
      /\ ld[m].result.kind = "ok"
      /\ Len(ld[m].result.ids) = Len(ld[m].json_list)
      /\ IdsCommitted(m)

\* C16 (no duplicate link rows in storage): in every state, under sequential
\* and concurrent submissions, each link table holds at most one row per
\* composite key; the key of paper_funding is (paper, agency, grant id) with
\* null grant ids equal to each other.
C16_NoDuplicateLinks ==
  \A t \in LinkTables : \A r1, r2 \in db[t] : r1.key = r2.key => r1.id = r2.id

\* two workers have loaded the same paper at the same time, its funding
\* entry without grant id, and the paper has one funding link
C16_Witness ==
  \E l, m \in Loaders :
    /\ l # m /\ m \in hist[l].inflight
    /\ Finished(l) /\ ld[l].result.kind = "ok" /\ ld[l].commit
    /\ Finished(m) /\ ld[m].result.kind = "ok" /\ ld[m].commit
    /\ ld[l].json_list = <<Sparse>> /\ ld[m].json_list = <<Sparse>>
    /\ \E r \in db["paper_funding"] :
         r.key[3] = NULL /\ db["paper_funding"] = {r}

\* the columns of a link file that make its composite key
CsvKey(f, row) ==
  CASE f = "paper_authors" -> <<row[2], row[3]>>
    [] f = "paper_funding" -> <<row[1], row[2], row[3]>>
    [] OTHER -> <<row[1], row[2]>>

\* C17 (no duplicate link rows in the CSV export): after any sequence of
\* export_papers_batch calls, no two lines of paper_authors.csv,
\* paper_author_affiliations.csv, paper_keywords.csv, paper_subject_areas.csv
\* or paper_funding.csv carry the same composite key.
C17_NoDuplicateCsvLinks ==
  \A f \in LinkTables \ {"reference_papers"} :
    \A i, j \in DOMAIN ex.files[f] :
      CsvKey(f, ex.files[f][i]) = CsvKey(f, ex.files[f][j]) => i = j

\* the texts of a record's keywords, and the grant ids of its funding links
KeywordTexts(r) == Range(KeywordVals(r.authkw)) \cup Range(KeywordVals(r.idxterms))
GrantIds(r) ==
  UNION {IF r.funding[i].grants = <<>> THEN {NULL} ELSE Range(r.funding[i].grants)
           : i \in DOMAIN r.funding}

\* C18 (single-object normalization): a first call on empty storage with one
\* record that carries a repeatable group as one single object returns, and
\* leaves the dimension and link rows of the record's entries, as for the
\* record that carries the group as a list: an author, subject area and
\* keyword row per entry with the entry's attributes, and a link row per
\* author, affiliation of an author, keyword, subject area, reference and
\* grant.
C18_SingleAsList ==
  \A l \in Loaders :
    (/\ scn.name = "single" /\ Finished(l) /\ ld[l].own_tx) =>
      LET r == ld[l].json_list[1]
          rows(t) == {[key |-> x.key, attrs |-> x.attrs] : x \in db[t]}
          n(t) == Cardinality(db[t])
      IN /\ ld[l].result.kind = "ok"
         /\ rows("authors") = {AuthorRow(r.authors[i]) : i \in DOMAIN r.authors}
         /\ rows("subject_areas") = {SubjectRow(r.subjects[i]) : i \in DOMAIN r.subjects}
         /\ {x.key : x \in db["keywords"]} = KeywordTexts(r)
         /\ ~ld[l].disable =>
              /\ rows("affiliations") =
                   {AffiliationRow(r.affiliation[i]) : i \in DOMAIN r.affiliation}
              /\ n("paper_author_affiliations") =
                   Cardinality({<<i, a>> : i \in DOMAIN r.authors,
                                           a \in UNION {Range(x.affiliation) : x \in Range(r.authors)}})
         /\ n("paper_authors") = Len(r.authors)
         /\ n("paper_keywords") = Cardinality(KeywordTexts(r))
         /\ n("paper_subject_areas") = Len(r.subjects)
         /\ n("reference_papers") = Len(r.refs)
         /\ {x.key[3] : x \in db["paper_funding"]} = GrantIds(r)

\* record i of the batch of loader l's call names no source
Sourceless(l, i) == ~Truthy(ld[l].json_list[i].source.srcid)

\* C19 (missing external identifier means skip): no sources, affiliations,
\* authors or subject_areas row is stored without its external identifier,
\* and the paper a call has inserted for a record without a source
\* identifier has a null source reference.
C19_MissingIdSkipped ==
  /\ \A d \in {"sources", "affiliations", "authors", "subject_areas"} :
       \A r \in db[d] : Truthy(r.key)
  /\ \A l \in Loaders :
       Finished(l) =>
         \A i \in DOMAIN ld[l].json_list : \A p \in db["papers"] :
           (/\ Sourceless(l, i)
            /\ p.key = ld[l].json_list[i].core.dc_identifier
            /\ p.id \notin hist[l].start["papers"]) =>
             p.attrs.source_id = NoId

\* the citation count c is absent, null, empty or no number
NonNumeric(c) == IntOf(c) = ParseErr

\* C20 (citation-count coercion): no call raises while it converts the
\* citation count of a record whose count is absent, null, empty or
\* non-numeric, and a call that returned and committed has stored 0 for such
\* a record and the integer value for a numeric string.
C20_CountCoerced ==
  \A l \in Loaders :
    Finished(l) =>
      \A i \in DOMAIN ld[l].json_list :
        LET core == ld[l].json_list[i].core
        IN /\ NonNumeric(core.citedby_count) => ld[l].failed_at # "gather_papers"
           /\ (ld[l].result.kind = "ok" /\ ld[l].own_tx) =>
                \A p \in db["papers"] :
                  (p.key = core.dc_identifier /\ p.key # NULL) =>
                    p.attrs.cited_by_count =
                      IF NonNumeric(core.citedby_count) THEN 0
                      ELSE IntOf(core.citedby_count)

\* the batch of loader l's call holds well-formed records only: each has its
\* core wrapper and carries its repeatable groups as lists
WellFormed(l) ==
  /\ ~Malformed(l)
  /\ \A i \in DOMAIN ld[l].json_list : ld[l].json_list[i].single = {}

\* C21 (extraction tolerates missing optional data): no call on a batch of
\* records that have their core wrapper raises in the extraction stage,
\* whichever optional part of a record is absent or carries a null value.
C21_ExtractionTolerant ==
  \A l \in Loaders : WellFormed(l) => ld[l].failed_at # "extract"

\* the affiliation ids that the batch of loader l lists at the top level of
\* its records
ListedAffiliations(l) ==
  {a.id : a \in UNION {Range(d.affiliation) : d \in Range(ld[l].json_list)}}

\* the link (paper pid, author auid, affiliation sc_aff) is stored, as loader
\* l sees the tables
AffiliationLinked(l, pid, auid, sc_aff) ==
  \E au \in Visible(l, "authors") : \E af \in Visible(l, "affiliations") :
    \E pa \in Visible(l, "paper_authors") :
      /\ au.key = auid /\ af.key = sc_aff /\ pa.key = <<pid, au.id>>
      /\ \E x \in Visible(l, "paper_author_affiliations") : x.key = <<pa.id, af.id>>

\* C22 (affiliation-link completeness): after a call that returned, for every
\* record with a paper id whose paper is stored, every author of it with an
\* id and every affiliation id of that author that is in the batch's
\* affiliation list or names a stored affiliation, the link row of (paper,
\* author) and the affiliation is stored, for batches of any size.
C22_AffiliationsLinked ==
  \A l \in Loaders :
    (Finished(l) /\ ld[l].result.kind = "ok" /\ WellFormed(l)) =>
      \A i \in DOMAIN ld[l].json_list :
        \A a \in Range(ld[l].json_list[i].authors) :
          \A f \in Range(a.affiliation) :
            (/\ ld[l].result.ids[i] \in Ids(Visible(l, "papers"))
             /\ Truthy(a.auid) /\ Truthy(f)
             /\ \/ f \in ListedAffiliations(l)
                \/ \E r \in Visible(l, "affiliations") : r.key = f)
            => AffiliationLinked(l, ld[l].result.ids[i], a.auid, f)

\* _bulk_upsert_dimensions of loader l's call has just returned: the paper
\* loop is about to take its first record
DimensionsDone(l) ==
  /\ ld[l].pc = "gather_papers"
  /\ Len(ld[l].queue) = Len(ld[l].json_list) /\ ld[l].rows = <<>>

\* the deduplicated map of dimension d that the bulk stage of l's call was
\* handed, as the sequence of its rows
DimensionMap(l, d) ==
  LET ext == _extract_dimension_sets(ld[l].json_list, ld[l].disable)
  IN CASE d = "sources" -> ext.sources
       [] d = "affiliations" -> ext.affiliations
       [] d = "authors" -> ext.authors
       [] d = "subject_areas" -> ext.subjects
       [] d = "keywords" -> AllKeywords(ext)

\* C23 (cache fully populated after the bulk stage): when
\* _bulk_upsert_dimensions returns, every natural key of each of the five
\* maps it was handed is in the dimension's cache with the id of the stored
\* row of that key, for maps of any size.
C23_CachePopulated ==
  \A l \in Loaders :
    DimensionsDone(l) =>
      \A d \in Dims :
        \A row \in Range(DimensionMap(l, d)) :
          /\ row.key \in DOMAIN ld[l].cache[d]
          /\ \E r \in Visible(l, d) :
               r.key = row.key /\ r.id = ld[l].cache[d][row.key]

\* the entities of dimension d that the records of a batch name, in batch
\* order, repetitions included
Occurrences(json_list, d) ==
  LET of(data) ==
        CASE d = "sources" -> <<SourceRow(data)>>
          [] d = "affiliations" -> MapSeq(data.affiliation, AffiliationRow)
          [] d = "authors" -> MapSeq(data.authors, AuthorRow)
          [] d = "subject_areas" -> MapSeq(data.subjects, SubjectRow)
          [] d = "keywords" ->
               MapSeq(data.authkw, LAMBDA k : KeywordRow(k, "author"))
               \o MapSeq(IdxTerms(data), LAMBDA k : KeywordRow(k, "indexed"))
  IN SelectSeq(Flatten(MapSeq(json_list, of)), LAMBDA row : Truthy(row.key))

\* map holds exactly the keys of occ that are not in known, each once, and
\* (attrs) with the attribute tuple of the key's first occurrence
Deduplicated(map, occ, known, attrs) ==
  /\ {map[i].key : i \in DOMAIN map} = {occ[i].key : i \in DOMAIN occ} \ known
  /\ \A i, j \in DOMAIN map : map[i].key = map[j].key => i = j
  /\ attrs =>
       \A i \in DOMAIN map :
         \E j \in DOMAIN occ :
           /\ occ[j] = map[i]
           /\ \A k \in 1..(j - 1) : occ[k].key # map[i].key

\* C24 (deduplicator output): at the start of a call whose extraction does
\* not raise, each of the five maps of _extract_dimension_sets holds exactly
\* the natural keys that occur in the batch and are not in the loader's
\* cache of the dimension, each key once, with the attribute tuple of the
\* key's first occurrence in the batch.
C24_DeduplicatorOutput ==
  \A l \in Loaders :
    (/\ ld[l].pc = "extract" /\ WellFormed(l)
     /\ ~NullRaises(ld[l].json_list, ld[l].disable, {})) =>
      \A d \in Dims :
        Deduplicated(DimensionMap(l, d), Occurrences(ld[l].json_list, d),
                     DOMAIN ld[l].cache[d], d # "keywords")

\* C25 (fixed stage order within one batch): in every call the statements
\* write the dimension tables first, then papers, then paper_authors, then
\* paper_author_affiliations, then paper_keywords, then paper_subject_areas,
\* then reference_papers, then the funding tables; no statement writes a
\* table of an earlier stage after a statement on a table of a later stage.
C25_StageOrder ==
  \A l \in Loaders :
    \A i, j \in DOMAIN hist[l].order : i < j => hist[l].order[i] < hist[l].order[j]

\* the calls of the two workers are in flight at the same time, both with
\* commit=True, on batches that list the same two papers, and so the same
\* two keys of each dimension, in different orders
Racing ==
  /\ \A l \in Loaders : ld[l].async /\ ld[l].pc # "idle" /\ ld[l].commit
  /\ ld[1].json_list # ld[2].json_list
  /\ Range(ld[1].json_list) = Range(ld[2].json_list)
  /\ Cardinality(Range(ld[1].json_list)) >= 2

\* both calls have returned and committed, with one id per shared key
BothCommitted ==
  /\ \A l \in Loaders :
       Finished(l) /\ ld[l].result.kind = "ok" /\ IdsCommitted(l) /\ NoOpenTx(l)
  /\ \A d \in Dims :
       \A k \in DOMAIN ld[1].cache[d] \cap DOMAIN ld[2].cache[d] :
         ld[1].cache[d][k] = ld[2].cache[d][k]

\* C26 (progress of concurrent batches): when two workers run their calls at
\* the same time on batches that share two or more keys of a dimension, or
\* the same papers, listed in different orders, then under fair scheduling
\* both calls eventually return and commit, the shared keys resolved to the
\* same ids; no wait between the two transactions ends a call with an error.
C26_BothCommit == Racing ~> BothCommitted

\* C27 (durability of async results): for every value of the commit argument,
\* once a call through the async wrapper has returned and the worker's loader
\* is closed, every non-null paper id in the returned list is the id of a
\* papers row that is committed and visible to other connections.
C27_AsyncDurable ==
  \A l \in Loaders :
    (ld[l].async /\ Finished(l) /\ ld[l].result.kind = "ok" /\ ld[l].conn_closed) =>
      \A i \in DOMAIN ld[l].result.ids :
        ld[l].result.ids[i] # NoId =>
          \E r \in db["papers"] :
            /\ r.id = ld[l].result.ids[i] /\ ~r.new
            /\ \A m \in Loaders : r \in Visible(m, "papers")

\* the natural keys of the rows of table t that loader l sees
StoredKeys(l, t) == {r.key : r \in Visible(l, t)}

\* the natural keys of dimension d that the bulk stage upserts for the batch
\* when disable_metadata_upsert is False
BulkKeys(json_list, d) ==
  LET ext == _extract_dimension_sets(json_list, FALSE)
  IN {r.key : r \in Range(IF d = "sources" THEN ext.sources ELSE ext.affiliations)}

\* C28 (the disable_metadata_upsert flag changes where rows are written, not
\* what is stored): after a call with disable_metadata_upsert=True that
\* returned and whose writes were not rolled back, the rows that the call
\* leaves with the flag off are stored: a sources row and an affiliations row
\* for every key the bulk stage would have upserted, and the
\* paper_author_affiliations row of every author and listed affiliation of a
\* stored paper.
C28_FlagEquivalent ==
  \A l \in Loaders :
    (/\ Finished(l) /\ ld[l].result.kind = "ok" /\ WellFormed(l) /\ ld[l].disable
     /\ \A i \in DOMAIN ld[l].result.ids :
          ld[l].result.ids[i] \in Ids(Visible(l, "papers"))) =>
      /\ \A d \in {"sources", "affiliations"} :
           BulkKeys(ld[l].json_list, d) \subseteq StoredKeys(l, d)
      /\ \A i \in DOMAIN ld[l].json_list :
           \A a \in Range(ld[l].json_list[i].authors) :
             \A f \in Range(a.affiliation) :
               (Truthy(a.auid) /\ Truthy(f) /\ f \in ListedAffiliations(l)) =>
                 AffiliationLinked(l, ld[l].result.ids[i], a.auid, f)

\* the column of table k's CSV file that holds the natural key; 0 = none (a
\* funding agency's lookup key is no column of its file)
KeyColumn(k) ==
  CASE k = "sources" -> 4
    [] k = "funding_agencies" -> 0
    [] OTHER -> 2

\* the rows of the CSV file of kind k that carry the id of key
RowsOf(E, k, key) ==
  {i \in DOMAIN E.files[k] : E.files[k][i][1] = CellI(E.id_map[k][key])}

\* C29 (synthetic-id consistency of the CSV exporter): after any sequence of
\* export_papers_batch calls on one exporter, for each of sources,
\* affiliations, authors, subject areas, keywords, papers and funding
\* agencies the map from natural key to synthetic id is injective, its key
\* set is the seen-set, every key in it has exactly one row in the table's
\* CSV file, carrying its id and the key, and the table's id counter is
\* greater than every id in the map.
C29_IdsConsistent ==
  \A k \in ExKinds :
    LET map == ex.id_map[k]
    IN /\ \A k1, k2 \in DOMAIN map : map[k1] = map[k2] => k1 = k2
       /\ DOMAIN map = ex.seen[k]
       /\ \A key \in DOMAIN map :
            /\ Cardinality(RowsOf(ex, k, key)) = 1
            /\ KeyColumn(k) # 0 =>
                 \A i \in RowsOf(ex, k, key) : ex.files[k][i][KeyColumn(k)] = CellS(key)
            /\ map[key] < ex.counter[k]

\* the files whose rows belong to one paper, and the column of the paper id
PaperFiles ==
  {"papers", "paper_authors", "paper_keywords", "paper_subject_areas",
   "reference_papers", "paper_funding"}
PaperIdColumn(f) == IF f = "paper_authors" THEN 2 ELSE 1

\* the rows that the step from exporter E to exporter F has added to file f
Appended(E, F, f) == SubSeq(F.files[f], Len(E.files[f]) + 1, Len(F.files[f]))

\* the position of the first record of the batch with the external
\* identifier of record i
FirstOf(json_list, i) ==
  CHOOSE j \in 1..i :
    /\ json_list[j].core.dc_identifier = json_list[i].core.dc_identifier
    /\ \A k \in 1..(j - 1) :
         json_list[k].core.dc_identifier # json_list[i].core.dc_identifier

\* a call of export_papers_batch, from exporter E to exporter F, treats its
\* replayed records as C30 states
ReplayStep(E, F) ==
  LET json_list == F.json_list
      sc_id(i) == json_list[i].core.dc_identifier
      old == {CellI(E.id_map["papers"][k]) : k \in DOMAIN E.id_map["papers"]}
  IN /\ F.result.kind = "ok" =>
          /\ Len(F.result.ids) = Len(json_list)
          /\ \A i \in DOMAIN json_list :
               IF sc_id(i) \in E.seen["papers"]
               THEN F.result.ids[i] = Get(E.id_map["papers"], sc_id(i))
               ELSE F.result.ids[i] = F.result.ids[FirstOf(json_list, i)]
     /\ \A f \in PaperFiles :
          /\ SubSeq(F.files[f], 1, Len(E.files[f])) = E.files[f]
          /\ \A row \in Range(Appended(E, F, f)) : row[PaperIdColumn(f)] \notin old
     /\ Len(Appended(E, F, "papers")) <=
          Cardinality({sc_id(i) : i \in DOMAIN json_list} \ E.seen["papers"])
     /\ Cardinality({row[1] : row \in Range(Appended(E, F, "papers"))}) =
          Len(Appended(E, F, "papers"))
     /\ (\A i \in DOMAIN json_list : sc_id(i) \in E.seen["papers"]) =>
          \A f \in PaperFiles \cup {"paper_author_affiliations", "funding_agencies"} :
            F.files[f] = E.files[f]

\* C30 (replay in the CSV exporter): when export_papers_batch meets a record
\* whose external identifier this exporter has already exported, in an
\* earlier batch or earlier in the same batch, it puts the id assigned then
\* at that position of its result and writes no row for that record to
\* papers.csv or to a link, reference or funding file: the returned list has
\* the length of the input, and a batch of exported records only leaves the
\* row counts of those files as they were.
C30_Replay == [][ex' # ex => ReplayStep(ex, ex')]_vars

\* a call on a single record with authors has returned the id 1 after two
\* papers had been exported: the record was exported by an earlier call
C30_Witness ==
  /\ ex.result.kind = "ok" /\ ex.result.ids = <<1>>
  /\ Len(ex.json_list) = 1 /\ ex.json_list[1].authors # <<>>
  /\ ex.counter["papers"] = 3 /\ Len(ex.files["papers"]) = 2

====
